---- MODULE Spec2Model ----
(***************************************************************************)
(* Star chart generator: a state-machine model of the rendering core.      *)
(*                                                                         *)
(*   render.py   generate_star_chart      Spec                             *)
(*   labels.py   layout_labels            SpecLabels                       *)
(*   generate.py _GaussianKernelCache     SpecCache                        *)
(*   camera.py   create_projection        SpecCamera                       *)
(*                                                                         *)
(* Numbers.  Python floats are modelled in exact fixed point.  An angle is *)
(* an integer count of 1/(50850 * Grain) radians: 50850 = 2 * 9 * 25 * 113 *)
(* holds the centi-radian (508.5 * Grain), the arc angles length / radius  *)
(* of the labels used, and math.pi as 355/113 (159750 * Grain, 2.7e-7 rad  *)
(* above math.pi); Grain is a power of two, so that the halvings of the    *)
(* relaxation are exact as far as Grain reaches; a half that falls between *)
(* two grid angles is rounded to either of them, as an assignment of the   *)
(* code rounds to a float.                                                 *)
(***************************************************************************)
EXTENDS Integers, Sequences, FiniteSets, TLC

VARIABLES
    \* ---- labels.py: one call of layout_labels ----
    specs,        \* the LabelSpec list handed to layout_labels
    padding,      \* keyword argument padding (angle units)
    iterations,   \* keyword argument iterations
    placements,   \* the LabelPlacement list: [spec, theta, arc_angle, advances, stepped]
    lpc,          \* position in layout_labels
    lgroup,       \* index of the ring group being relaxed (dict order)
    lpass,        \* the passes `for _ in range(iterations)` has started for the group
    li, lj,       \* positions i < j inside the group
    moved,        \* the local flag `moved`
    ltook,        \* the last pair tested met line 142 and was stepped
    brokeOut,     \* rings whose relaxation left the loop through `break`
    \* ---- generate.py: _GaussianKernelCache shared by two renders ----
    kcache,       \* the class attribute _cache: key -> kernel
    tpc,          \* per thread: position in get_kernel
    tsigma,       \* per thread: the sigma_px it was called with
    tkernel,      \* per thread: the patch it is about to return
    overlapped,   \* per thread: another call was in flight during this one
    returns,      \* the calls that ended: sigma asked for, kernel returned or raised
    \* ---- camera.py: create_projection, then project ----
    camera,       \* the Camera
    crings,       \* the ring list
    cres,         \* the Resolution
    proj,         \* the ProjectionParams built
    point,        \* the last (screen_x, screen_y, z_camera) returned by project
    cpc,          \* position: start, created, projected, raised
    cfailure,     \* the division that raised ZeroDivisionError, or "none"
    \* ---- shapes.py: render_ui_layers building and drawing the ring labels ----
    aconfig,      \* the SceneConfig: [rings, readouts]
    aspecs,       \* label_specs, the list _build_label_specs is filling
    aidx,         \* the readout the loop of line 175 is at
    adrawn,       \* the labels drawn: [ring_index, nchars, centre]
    afailure,     \* the exception raised, or "none"
    apc,          \* position: start, readouts, specs, finished, raised
    \* ---- image.py to_png_bytes, scripts/generate_star_chart.py _load_png ----
    pimage,       \* the FloatImage being saved: [w, h, px], channels in 1/510
    pfile,        \* the bytes of the file: [sig, chunks]
    ptamper,      \* what was changed in the file before it was read, or "none"
    pout,         \* the FloatImage _load_png returned: channels in 1/255
    perror,       \* the exception _load_png raised, or "none"
    ppc,          \* position: start, encoded, tampered, decoded
    \* ---- config.py SceneConfig.from_dict, shapes.py render_ui_layers ----
    ddata,        \* the descriptor handed to from_dict: [rings, readouts]
    dconfig,      \* the SceneConfig from_dict returned
    derror,       \* the exception raised, or "none"
    draised,      \* where it was raised: "from_dict", "core" or "nowhere"
    ddrawn,       \* the radii of the rings render_ui_layers drew, in 1/10000
    dskipped,     \* the ring indexes of the readouts _build_label_specs skipped
    dpc,          \* position: start, constructed, drawn, labelled, failed
    \* ---- render.py with the supersampling factor: sampling.py, shapes.py ----
    uscene,       \* the scene: base resolution, tick, star and text sizes
    ussaa,        \* resolution.ssaa
    uproj,        \* projection.pixel_to_radius, a rational
    usigma,       \* the sigma the star was splatted with, in 1/10000 px
    uextent,      \* outer - inner radius of the ticks of each spacing
    uscale,       \* label_scale, in 1/18
    upc,          \* position: start, projected, stars, ticks, labels
    \* ---- post.py _select_downsample_factor ----
    fsigma,       \* sigma, in 1/100 px
    fwidth,       \* width
    fheight,      \* height
    ffactor,      \* factor
    fsteps,       \* the number of times the loop body has run
    fpc,          \* position: loop, returned
    \* ---- config.py SceneConfig.from_dict (hud), shapes.py render_ui_layers ----
    hdata,        \* the "hud" section of the descriptor, or its absence
    hhud,         \* the HUDConfig from_dict built
    hdrawn,       \* the readouts render_ui_layers handed to _draw_hud
    herror,       \* the exception raised, or "none"
    hpc,          \* position: start, constructed, rendered, failed
    \* ---- labels.py draw_label_layers ----
    gplacement,   \* the placement drawn: [spec, theta, arc_angle, advances]
    gcursor,      \* theta of the glyph loop, a rational number of radians
    gcentres,     \* the angles the glyphs were drawn at, in order
    gpc,          \* position: start, glyphs, done
    \* ---- shapes.py _iter_tick_spacings ----
    kconfig,      \* the RingTickConfig: [every_deg, length_px], lengths in 1/100 px
    kpairs,       \* the (spacing, length) pairs yielded
    kpc,          \* position: start, done
    \* ---- sampling.py generate_star_field ----
    nconfig,      \* [bulge, background: the counts, annulus: max_r > min_r, ssaa]
    nrng0,        \* the state of the generator when the call starts
    nrng,         \* the state of the generator
    nstars,       \* the stars appended so far
    npc,          \* position: bulge, background, done
    \* ---- render.py lines 43-45: the composite ----
    mheap,        \* the pixel buffers: 1 star_layer, 2 ui_core, 3 ui_glow, then new ones
    mbefore,      \* the three layers as they were handed to the composite
    mcombined,    \* the buffer `combined` refers to (0: not yet bound)
    mpc,          \* position: copy, core, glow, done
    \* ---- post.py apply_chromatic_aberration ----
    qimage,       \* the input buffer [w, h, px]; px[y + 1][x + 1] is <<r, g, b>>
    qpixels,      \* the shift magnitude, in sub-pixels
    qcenter,      \* the centre <<cx, cy>> in sub-pixels, or <<>> for None
    qresult,      \* the result buffer, channels as exact fractions
    qpos,         \* the pixels of the loop done so far, in row-major order
    qpc,          \* position: start, loop, done
    \* ---- generate.py _StarChartRenderer._draw_ring: the dash loop ----
    wdash,        \* ring.dash, in degrees
    wpattern,     \* pattern
    wangle,       \* angle
    widx,         \* idx
    warcs,        \* the arcs drawn so far, each <<start, end>>
    wpc,          \* position: start, loop, done
    \* ---- render.py: calls of generate_star_chart, one after another ----
    cfg,          \* the SceneConfig of the current call
    seedArg,      \* the keyword argument seed (given or None)
    rpc,          \* position in generate_star_chart
    rng,          \* the state of the random generator in use
    heap,         \* the FloatImage objects of the call: [w, h, px] by identity
    loc,          \* the local variables of the call: name -> object identity
    handed,       \* the pixel-unit magnitudes handed to the stages
    trace,        \* one record per post stage run, in the order they ran
    failure,      \* the function that raised, or "none"
    outcome,      \* the RenderResult of the call, by value
    calls,        \* the number of calls started
    ref           \* one earlier call that is remembered: its arguments and result

labelVars == <<specs, padding, iterations, placements, lpc, lgroup, lpass,
               li, lj, moved, ltook, brokeOut>>

renderVars == <<cfg, seedArg, rpc, rng, heap, loc, handed, trace, failure,
                outcome, calls, ref>>

cacheVars == <<kcache, tpc, tsigma, tkernel, overlapped, returns>>

cameraVars == <<camera, crings, cres, proj, point, cpc, cfailure>>

alignVars == <<aconfig, aspecs, aidx, adrawn, afailure, apc>>

pngVars == <<pimage, pfile, ptamper, pout, perror, ppc>>

configVars == <<ddata, dconfig, derror, draised, ddrawn, dskipped, dpc>>

supersamplingVars == <<uscene, ussaa, uproj, usigma, uextent, uscale, upc>>

factorVars == <<fsigma, fwidth, fheight, ffactor, fsteps, fpc>>

hudVars == <<hdata, hhud, hdrawn, herror, hpc>>

glyphsVars == <<gplacement, gcursor, gcentres, gpc>>

ticksVars == <<kconfig, kpairs, kpc>>

starsVars == <<nconfig, nrng0, nrng, nstars, npc>>

sumVars == <<mheap, mbefore, mcombined, mpc>>

aberrationVars == <<qimage, qpixels, qcenter, qresult, qpos, qpc>>

dashVars == <<wdash, wpattern, wangle, widx, warcs, wpc>>

vars == <<labelVars, renderVars, cacheVars, cameraVars, alignVars, pngVars, configVars, supersamplingVars, factorVars, hudVars, glyphsVars, ticksVars, starsVars, sumVars, aberrationVars, dashVars>>

\* What a step of one component leaves alone.
notLabelVars == <<renderVars, cacheVars, cameraVars, alignVars, pngVars, configVars, supersamplingVars, factorVars, hudVars, glyphsVars, ticksVars, starsVars, sumVars, aberrationVars, dashVars>>
notRenderVars == <<labelVars, cacheVars, cameraVars, alignVars, pngVars, configVars, supersamplingVars, factorVars, hudVars, glyphsVars, ticksVars, starsVars, sumVars, aberrationVars, dashVars>>
notCacheVars == <<labelVars, renderVars, cameraVars, alignVars, pngVars, configVars, supersamplingVars, factorVars, hudVars, glyphsVars, ticksVars, starsVars, sumVars, aberrationVars, dashVars>>
notCameraVars == <<labelVars, renderVars, cacheVars, alignVars, pngVars, configVars, supersamplingVars, factorVars, hudVars, glyphsVars, ticksVars, starsVars, sumVars, aberrationVars, dashVars>>
notAlignVars == <<labelVars, renderVars, cacheVars, cameraVars, pngVars, configVars, supersamplingVars, factorVars, hudVars, glyphsVars, ticksVars, starsVars, sumVars, aberrationVars, dashVars>>
notPngVars == <<labelVars, renderVars, cacheVars, cameraVars, alignVars, configVars, supersamplingVars, factorVars, hudVars, glyphsVars, ticksVars, starsVars, sumVars, aberrationVars, dashVars>>
notConfigVars == <<labelVars, renderVars, cacheVars, cameraVars, alignVars, pngVars, supersamplingVars, factorVars, hudVars, glyphsVars, ticksVars, starsVars, sumVars, aberrationVars, dashVars>>
notSupersamplingVars == <<labelVars, renderVars, cacheVars, cameraVars, alignVars, pngVars, configVars, factorVars, hudVars, glyphsVars, ticksVars, starsVars, sumVars, aberrationVars, dashVars>>
notFactorVars == <<labelVars, renderVars, cacheVars, cameraVars, alignVars, pngVars, configVars, supersamplingVars, hudVars, glyphsVars, ticksVars, starsVars, sumVars, aberrationVars, dashVars>>
notHudVars == <<labelVars, renderVars, cacheVars, cameraVars, alignVars, pngVars, configVars, supersamplingVars, factorVars, glyphsVars, ticksVars, starsVars, sumVars, aberrationVars, dashVars>>
notGlyphsVars == <<labelVars, renderVars, cacheVars, cameraVars, alignVars, pngVars, configVars, supersamplingVars, factorVars, hudVars, ticksVars, starsVars, sumVars, aberrationVars, dashVars>>
notTicksVars == <<labelVars, renderVars, cacheVars, cameraVars, alignVars, pngVars, configVars, supersamplingVars, factorVars, hudVars, glyphsVars, starsVars, sumVars, aberrationVars, dashVars>>
notStarsVars == <<labelVars, renderVars, cacheVars, cameraVars, alignVars, pngVars, configVars, supersamplingVars, factorVars, hudVars, glyphsVars, ticksVars, sumVars, aberrationVars, dashVars>>
notSumVars == <<labelVars, renderVars, cacheVars, cameraVars, alignVars, pngVars, configVars, supersamplingVars, factorVars, hudVars, glyphsVars, ticksVars, starsVars, aberrationVars, dashVars>>
notAberrationVars == <<labelVars, renderVars, cacheVars, cameraVars, alignVars, pngVars, configVars, supersamplingVars, factorVars, hudVars, glyphsVars, ticksVars, starsVars, sumVars, dashVars>>
notDashVars == <<labelVars, renderVars, cacheVars, cameraVars, alignVars, pngVars, configVars, supersamplingVars, factorVars, hudVars, glyphsVars, ticksVars, starsVars, sumVars, aberrationVars>>

----------------------------------------------------------------------------
(* Bounds of the model *)

MaxLabels == 3
MaxIterations == 3
MaxDim == 2
MaxCalls == 3
MaxRequests == 3
MaxPngDim == 2
MaxRings == 2
MaxSupersampling == 3
MaxHudReadouts == 2
MaxGlyphs == 3
MaxSpacings == 3
MaxStars == 2
MaxPixels == 2
MaxAberrationDim == 2
SubPixelBits == 2
MaxDash == 2
MaxSpans == 20
MaxHalvings == 9
MaxReadouts == 2

----------------------------------------------------------------------------
(* Helpers *)

Abs(x) == IF x < 0 THEN -x ELSE x
Max(a, b) == IF a >= b THEN a ELSE b
Min(a, b) == IF a <= b THEN a ELSE b

RECURSIVE Pow2(_)
Pow2(n) == IF n = 0 THEN 1 ELSE 2 * Pow2(n - 1)

RECURSIVE SumSeq(_)
SumSeq(s) == IF s = <<>> THEN 0 ELSE Head(s) + SumSeq(Tail(s))

\* The number of pairs i < j among MaxLabels labels.
MaxPairs == (MaxLabels * (MaxLabels - 1)) \div 2

\* Sub-units of 1/50850 rad: every pair step halves once, and min_sep
\* itself holds one halving; at most MaxHalvings are kept exactly, and a
\* step beyond them is rounded to the grid (RoundedHalf).
Grain == Pow2(Min(MaxIterations * MaxPairs + 1, MaxHalvings))

\* math.pi (as 355/113) and 2 * math.pi in angle units.
PI == 159750 * Grain
TwoPi == 2 * PI

\* c centi-radians in angle units.
CentiRad(c) == (c * 1017 * Grain) \div 2

\* The default of the keyword argument padding: 0.06 rad.
DefaultPadding == 3051 * Grain

\* The default of the keyword argument iterations of layout_labels.
DefaultIterations == 140

----------------------------------------------------------------------------
(* image.py: FloatImage.  An object is [w, h, px]; px is the list of writes *)
(* that produced its pixels (operation and numeric arguments), so two       *)
(* objects hold equal pixels when their px are equal, and a write in place  *)
(* shows as a longer px under the same identity.                            *)

Px(op, args) == [op |-> op, args |-> args]

\* FloatImage.new(width, height, 0.0)
NewImage(w, h) == [w |-> w, h |-> h, px |-> <<>>]

\* FloatImage.copy: a new object with the same pixels.
CopyImage(img) == [w |-> img.w, h |-> img.h, px |-> img.px]

\* FloatImage.add_image, in place on the receiver.
AddImage(img, other) ==
    [img EXCEPT !.px = @ \o <<Px("add_image", <<Len(other.px)>>)>> \o other.px]

\* FloatImage.add_scaled_image, in place on the receiver.
AddScaledImage(img, other, scale) ==
    [img EXCEPT !.px = @ \o <<Px("add_scaled_image", <<scale, Len(other.px)>>)>>
                         \o other.px]

\* FloatImage.clamp, in place on the receiver.
ClampImage(img, lo, hi) == [img EXCEPT !.px = @ \o <<Px("clamp", <<lo, hi>>)>>]

\* FloatImage.downsample: a copy when factor <= 1, else a new object of
\* width // factor by height // factor.
Downsample(img, factor) ==
    IF factor <= 1
    THEN CopyImage(img)
    ELSE [w |-> img.w \div factor, h |-> img.h \div factor,
          px |-> img.px \o <<Px("downsample", <<factor>>)>>]

\* gaussian_blur: a new object.
GaussianBlur(img, sigma) ==
    IF sigma <= 0 THEN CopyImage(img)
    ELSE [w |-> img.w, h |-> img.h, px |-> img.px \o <<Px("gaussian_blur", <<sigma>>)>>]

----------------------------------------------------------------------------
(* random.Random: a linear congruential generator stands for the Mersenne   *)
(* twister; what matters is that the stream is a function of the seed.      *)

RngNext(s) == (33 * s + 7) % 251

\* random.Random(seed): a new generator whose state comes from the seed alone.
NewRandomShared(seed, old) == old
NewRandom(seed, old) == seed % 251

\* k steps of the generator as one map x -> (a * x + b) % 251, by squaring.
RECURSIVE RngSteps(_)
RngSteps(k) ==
    IF k = 0 THEN [a |-> 1, b |-> 0]
    ELSE LET h == RngSteps(k \div 2)
             sq == [a |-> (h.a * h.a) % 251, b |-> (h.a * h.b + h.b) % 251]
         IN IF k % 2 = 0 THEN sq
            ELSE [a |-> (33 * sq.a) % 251, b |-> RngNext(sq.b)]

\* The state of the generator n draws after state s, and the n values drawn.
RngAfter(s, n) == (RngSteps(n).a * s + RngSteps(n).b) % 251
Draws(s, n) == [k \in 1..n |-> RngAfter(s, k)]

----------------------------------------------------------------------------
(* post.py.  Magnitudes are in 1/100 (pixels, intensities, thresholds).     *)

\* The values a pixel channel or a luma may hold, in 1/100.
PixelSamples == {0, 1, 50, 75, 100, 400}

\* _bright_pass: a new buffer; a pixel whose luma is <= threshold or <= 1e-5
\* is skipped, every other pixel is scaled by (luma - threshold) / luma.
BrightPassDivisors(threshold) ==
    { luma \in PixelSamples : ~(luma <= threshold \/ luma <= 0) }
BrightPass(img, threshold) ==
    [w |-> img.w, h |-> img.h, px |-> img.px \o <<Px("bright_pass", <<threshold>>)>>]

\* apply_bloom, lines 120-137: add one blurred bright pass per (sigma,
\* intensity) pair, skipping the pairs that are not both positive.
RECURSIVE BloomAccumulate(_, _, _, _, _)
BloomAccumulate(result, bright, sigmas, intensities, k) ==
    IF k > Min(Len(sigmas), Len(intensities)) THEN result
    ELSE IF intensities[k] <= 0 \/ sigmas[k] <= 0
         THEN BloomAccumulate(result, bright, sigmas, intensities, k + 1)
         ELSE BloomAccumulate(
                  AddScaledImage(result, GaussianBlur(bright, sigmas[k]), intensities[k]),
                  bright, sigmas, intensities, k + 1)

\* apply_bloom: result starts as image.copy().
ApplyBloom(img, bright, sigmas, intensities) ==
    BloomAccumulate(CopyImage(img), bright, sigmas, intensities, 1)

\* apply_anamorphic_streak returns `image` itself in both branches; this is
\* whether it wrote into it (line 148 returns before any write).
StreakWrites(length_px, intensity) == ~(intensity <= 0 \/ length_px <= 0)

\* apply_anamorphic_streak, lines 151-161: the pixels of `image` afterwards.
ApplyStreak(img, bright, length_px, intensity) ==
    IF ~StreakWrites(length_px, intensity) THEN img
    ELSE AddScaledImage(img,
             [bright EXCEPT !.px = @ \o <<Px("horizontal_gaussian",
                                             <<Max(100, length_px \div 6)>>)>>],
             intensity)

\* apply_chromatic_aberration: pixels is the fraction num / den of 1/100 px.
\* max_radius = max(hypot(max(cx, w - cx), max(cy, h - cy)), 1.0) with the
\* default centre ((w - 1) / 2, (h - 1) / 2); squared and times 4 here.
ChromaMaxRadiusSq4(w, h) == Max((w + 1) * (w + 1) + (h + 1) * (h + 1), 4)

\* The per-pixel radius, squared and times 4; a pixel of radius <= 1e-6 is
\* copied and nothing is divided by its radius.
ChromaDivisors(img, pixels) ==
    IF pixels.num = 0 THEN {}
    ELSE {ChromaMaxRadiusSq4(img.w, img.h)}
         \cup { r \in { (2 * x - (img.w - 1)) * (2 * x - (img.w - 1))
                        + (2 * y - (img.h - 1)) * (2 * y - (img.h - 1)) :
                          x \in 0..(img.w - 1), y \in 0..(img.h - 1) } : r > 0 }

ApplyChromaticAberration(img, pixels) ==
    IF pixels.num = 0 THEN CopyImage(img)
    ELSE [w |-> img.w, h |-> img.h,
          px |-> img.px \o <<Px("chromatic_aberration", <<pixels.num, pixels.den>>)>>]

\* apply_vignette, lines 213-223: max_radius = sqrt(cx * cx + cy * cy) with
\* cx = (w - 1) / 2, cy = (h - 1) / 2, squared and times 4 here; every pixel
\* is divided by it.
VignetteMaxRadiusSq4(w, h) == (w - 1) * (w - 1) + (h - 1) * (h - 1)
VignetteDivisors(img, strength) ==
    IF strength <= 0 THEN {} ELSE {VignetteMaxRadiusSq4(img.w, img.h)}
ApplyVignette(img, strength) ==
    IF strength <= 0 THEN CopyImage(img)
    ELSE [w |-> img.w, h |-> img.h, px |-> img.px \o <<Px("vignette", <<strength>>)>>]

\* add_grain: a copy, plus one gauss draw per pixel when amount > 0.
GrainDraws(img, amount) == IF amount <= 0 THEN 0 ELSE img.w * img.h
AddGrain(img, amount, s) ==
    IF amount <= 0 THEN CopyImage(img)
    ELSE [w |-> img.w, h |-> img.h,
          px |-> img.px \o <<Px("grain", <<amount>> \o Draws(s, img.w * img.h))>>]

\* tone_map_aces: inv_gamma = 1 / max(gamma, 1e-3), in 1/1000 here, and per
\* channel value v the denominator v * (2.43 v + 0.59) + 0.14, times 10^6.
ToneMapDivisors(gamma) ==
    {Max(10 * gamma, 1)}
    \cup { v * (243 * v + 5900) + 140000 : v \in PixelSamples }
ToneMapAces(img, gamma) ==
    [w |-> img.w, h |-> img.h, px |-> img.px \o <<Px("tone_map_aces", <<gamma>>)>>]

----------------------------------------------------------------------------
(* shapes.py *)

\* sorted(..., reverse=True)
RECURSIVE InsertDesc(_, _)
InsertDesc(x, s) ==
    IF s = <<>> THEN <<x>>
    ELSE IF x >= Head(s) THEN <<x>> \o s ELSE <<Head(s)>> \o InsertDesc(x, Tail(s))
RECURSIVE SortDesc(_)
SortDesc(s) == IF s = <<>> THEN <<>> ELSE InsertDesc(Head(s), SortDesc(Tail(s)))

RECURSIVE Positive(_)
Positive(s) ==
    IF s = <<>> THEN <<>>
    ELSE (IF Head(s) > 0 THEN <<Head(s)>> ELSE <<>>) \o Positive(Tail(s))

\* _iter_tick_spacings: (spacing, length) pairs, coarsest spacing first.
IterTickSpacingsLongestFinest(tick) ==
    LET spacings == SortDesc(Positive(tick.every_deg))
        low == tick.length_px[1]
        high == tick.length_px[2]
        count == Max(Len(spacings) - 1, 1)
    IN [k \in 1..Len(spacings) |->
           [spacing |-> spacings[k],
            length |-> low + ((high - low) * (k - 1)) \div count]]
IterTickSpacings(tick) ==
    LET spacings == SortDesc(Positive(tick.every_deg))
        low == tick.length_px[1]
        high == tick.length_px[2]
        count == Max(Len(spacings) - 1, 1)
    IN [k \in 1..Len(spacings) |->
           [spacing |-> spacings[k],
            length |-> high - ((high - low) * (k - 1)) \div count]]

\* _draw_ticks, line 108: length_px = max(2.0, length * ssaa)
TickLengthPx(length, ssaa) == Max(200, length * ssaa)

----------------------------------------------------------------------------
(* render.py: generate_star_chart *)

Blank == NewImage(0, 0)
NoOutcome ==
    [image |-> Blank,
     layers |-> [stars |-> Blank, ui_core |-> Blank, ui_glow |-> Blank,
                 final_linear |-> Blank]]
NoLocals ==
    [star_layer |-> 0, ui_core |-> 0, ui_glow |-> 0, combined |-> 0, bloom |-> 0,
     bright |-> 0, aberrated |-> 0, vignetted |-> 0, grained |-> 0,
     final_linear |-> 0]
NothingHanded ==
    [tick |-> <<>>, bloom_sigmas |-> <<>>, streak |-> <<>>, chroma |-> <<>>,
     grain |-> <<>>]

\* Resolution.ssaa: no supersampling, and 2x.
SsaaValues == {1, 2}

Resolutions ==
    { [width |-> w, height |-> h, ssaa |-> s] :
        w \in 1..MaxDim, h \in 1..MaxDim, s \in SsaaValues }

\* PostConfig: the defaults of config.py, and a configuration with one bloom
\* level, threshold 0, gamma 0 and every other stage switched off.
PostVariants ==
    { [bloom |-> [threshold |-> 75, sigmas |-> <<200, 600>>, intensities |-> <<70, 40>>],
       anamorphic |-> [enabled |-> TRUE, length_px |-> 8000, intensity |-> 15],
       chroma_pixels |-> 120, vignette |-> 25, grain |-> 3, gamma |-> 220],
      [bloom |-> [threshold |-> 0, sigmas |-> <<200, 600>>, intensities |-> <<70, 0>>],
       anamorphic |-> [enabled |-> FALSE, length_px |-> 8000, intensity |-> 0],
       chroma_pixels |-> 0, vignette |-> 0, grain |-> 0, gamma |-> 0] }

\* config.hud: a HUDConfig as config.py builds it (lines 157-164) has no
\* attribute use_default_readouts; an object of a subclass may carry it.
HudObjects == { [has_use_default_readouts |-> b] : b \in BOOLEAN }

\* Every resolution and post configuration with a hud object that carries
\* the attribute, and the 1 x 1 resolutions with the HUDConfig of config.py.
Configs ==
    { [seed |-> 1, resolution |-> r, post |-> p,
       tick |-> [every_deg |-> <<10, 30>>, length_px |-> <<800, 1400>>],
       stars |-> [bulge_count |-> 1, background_count |-> 1], hud |-> h] :
        r \in Resolutions, p \in PostVariants,
        h \in { o \in HudObjects : o.has_use_default_readouts } }
    \cup
    { [seed |-> 1, resolution |-> r, post |-> p,
       tick |-> [every_deg |-> <<10, 30>>, length_px |-> <<800, 1400>>],
       stars |-> [bulge_count |-> 1, background_count |-> 1], hud |-> h] :
        r \in { q \in Resolutions : q.width = 1 /\ q.height = 1 }, p \in PostVariants,
        h \in { o \in HudObjects : ~o.has_use_default_readouts } }

\* The keyword argument seed: None, or an integer.
SeedArgs == { [given |-> FALSE, value |-> 0], [given |-> TRUE, value |-> 2] }

\* Line 34: seed if seed is not None else config.seed
EffectiveSeed(c, sa) == IF sa.given THEN sa.value ELSE c.seed

\* Line 35: ssaa = max(1, config.resolution.ssaa)
Ssaa(c) == Max(1, c.resolution.ssaa)

\* Resolution.supersampled()
SuperWidth(c) == c.resolution.width * c.resolution.ssaa
SuperHeight(c) == c.resolution.height * c.resolution.ssaa

\* One post stage run: the objects passed in, their pixels before and after
\* the call, the object returned and its pixels.
StageRecord(stage, ins, out, h0, h1) ==
    [stage |-> stage, ins |-> ins, out |-> out,
     before |-> [k \in 1..Len(ins) |-> h0[ins[k]]],
     after |-> [k \in 1..Len(ins) |-> h1[ins[k]]],
     result |-> h1[out]]

RenderIdle ==
    /\ cfg = CHOOSE c \in Configs : TRUE
    /\ seedArg = [given |-> FALSE, value |-> 0]
    /\ rpc = "idle"
    /\ rng = 0
    /\ heap = <<>>
    /\ loc = NoLocals
    /\ handed = NothingHanded
    /\ trace = <<>>
    /\ failure = "none"
    /\ outcome = NoOutcome
    /\ calls = 0
    /\ ref = [set |-> FALSE, at |-> 0, cfg |-> CHOOSE c \in Configs : TRUE, seed |-> 0,
              outcome |-> NoOutcome]

\* Lines 33-37: a call starts: its own generator, the projection.
StartRender ==
    /\ rpc \in {"idle", "returned", "raised"}
    /\ calls < MaxCalls
    /\ \E c \in Configs, sa \in SeedArgs :
          /\ cfg' = c
          /\ seedArg' = sa
          /\ rng' = NewRandom(EffectiveSeed(c, sa), rng)
    /\ calls' = calls + 1
    /\ heap' = <<>>
    /\ loc' = NoLocals
    /\ handed' = NothingHanded
    /\ trace' = <<>>
    /\ failure' = "none"
    /\ outcome' = NoOutcome
    /\ rpc' = "stars"
    /\ UNCHANGED ref
    /\ UNCHANGED notRenderVars

\* sampling.py generate_star_field draws 5 values per bulge star and 7 per
\* background star, bulge first; render_star_field splats them.
StarDraws(c) == 5 * c.stars.bulge_count + 7 * c.stars.background_count

\* Lines 39-40.
DrawStars ==
    /\ rpc = "stars"
    /\ heap' = Append(heap, [w |-> SuperWidth(cfg), h |-> SuperHeight(cfg),
                             px |-> <<Px("add_gaussian",
                                         <<Ssaa(cfg)>> \o Draws(rng, StarDraws(cfg)))>>])
    /\ rng' = RngAfter(rng, StarDraws(cfg))
    /\ loc' = [loc EXCEPT !.star_layer = Len(heap) + 1]
    /\ rpc' = "ui"
    /\ UNCHANGED <<cfg, seedArg, handed, trace, failure, outcome, calls, ref>>
    /\ UNCHANGED notRenderVars

\* Line 41: render_ui_layers (shapes.py 257-328): the ticks of the ring are
\* drawn, then line 309 reads config.hud.use_default_readouts: AttributeError
\* when the hud object has no such attribute, and the two buffers of the
\* call are lost; otherwise the two buffers are returned.
DrawUi ==
    /\ rpc = "ui"
    /\ LET ticks == IterTickSpacings(cfg.tick)
           lengths == [k \in 1..Len(ticks) |-> TickLengthPx(ticks[k].length, Ssaa(cfg))]
           core == [w |-> SuperWidth(cfg), h |-> SuperHeight(cfg),
                    px |-> <<Px("ui_core", lengths)>>]
           glow == GaussianBlur([w |-> SuperWidth(cfg), h |-> SuperHeight(cfg),
                                 px |-> <<Px("ui_glow", lengths)>>], 300 * Ssaa(cfg))
       IN /\ handed' = [handed EXCEPT !.tick = lengths]
          /\ IF cfg.hud.has_use_default_readouts
             THEN /\ heap' = heap \o <<core, glow>>
                  /\ loc' = [loc EXCEPT !.ui_core = Len(heap) + 1,
                                        !.ui_glow = Len(heap) + 2]
                  /\ rpc' = "composite"
                  /\ UNCHANGED failure
             ELSE /\ failure' = "render_ui_layers"
                  /\ rpc' = "raised"
                  /\ UNCHANGED <<heap, loc>>
    /\ UNCHANGED <<cfg, seedArg, rng, trace, outcome, calls, ref>>
    /\ UNCHANGED notRenderVars

\* Lines 43-45: combined = star_layer.copy(), plus the two UI layers.
Composite ==
    /\ rpc = "composite"
    /\ heap' = Append(heap,
                      AddImage(AddImage(CopyImage(heap[loc.star_layer]),
                                        heap[loc.ui_core]),
                               heap[loc.ui_glow]))
    /\ loc' = [loc EXCEPT !.combined = Len(heap) + 1]
    /\ rpc' = "bloom"
    /\ UNCHANGED <<cfg, seedArg, rng, handed, trace, failure, outcome, calls, ref>>
    /\ UNCHANGED notRenderVars

\* A stage raised: the call ends with the exception.
Raise(stage) ==
    /\ failure' = stage
    /\ rpc' = "raised"
    /\ UNCHANGED <<cfg, seedArg, rng, heap, loc, handed, trace, outcome, calls, ref>>

\* Lines 47-52: bloom, bright = apply_bloom(combined, ...)
Bloom ==
    /\ rpc = "bloom"
    /\ LET sigmas == [k \in 1..Len(cfg.post.bloom.sigmas) |->
                         cfg.post.bloom.sigmas[k] * Ssaa(cfg)]
           bright == BrightPass(heap[loc.combined], cfg.post.bloom.threshold)
           result == ApplyBloom(heap[loc.combined], bright, sigmas,
                                cfg.post.bloom.intensities)
           bloomId == Len(heap) + 1
           brightId == Len(heap) + 2
       IN IF 0 \in BrightPassDivisors(cfg.post.bloom.threshold)
          THEN Raise("apply_bloom")
          ELSE /\ heap' = heap \o <<result, bright>>
               /\ loc' = [loc EXCEPT !.bloom = bloomId, !.bright = brightId]
               /\ handed' = [handed EXCEPT !.bloom_sigmas = sigmas]
               /\ trace' = Append(trace, StageRecord("apply_bloom", <<loc.combined>>,
                                                     bloomId, heap, heap'))
               /\ rpc' = "streak"
               /\ UNCHANGED <<cfg, seedArg, rng, failure, outcome, calls, ref>>
    /\ UNCHANGED notRenderVars

\* Lines 54-60: the streak runs only when it is enabled; it returns `image`.
Streak ==
    /\ rpc = "streak"
    /\ cfg.post.anamorphic.enabled
    /\ LET length_px == cfg.post.anamorphic.length_px * Ssaa(cfg)
       IN /\ heap' = [heap EXCEPT ![loc.bloom] =
                         ApplyStreak(heap[loc.bloom], heap[loc.bright], length_px,
                                     cfg.post.anamorphic.intensity)]
          /\ handed' = [handed EXCEPT !.streak = <<length_px>>]
          /\ trace' = Append(trace, StageRecord("apply_anamorphic_streak",
                                                <<loc.bloom, loc.bright>>, loc.bloom,
                                                heap, heap'))
    /\ rpc' = "chroma"
    /\ UNCHANGED <<cfg, seedArg, rng, loc, failure, outcome, calls, ref>>
    /\ UNCHANGED notRenderVars

SkipStreak ==
    /\ rpc = "streak"
    /\ ~cfg.post.anamorphic.enabled
    /\ rpc' = "chroma"
    /\ UNCHANGED <<cfg, seedArg, rng, heap, loc, handed, trace, failure, outcome,
                   calls, ref>>
    /\ UNCHANGED notRenderVars

\* Line 64: pixels = config.post.chromatic_aberration.pixels / ssaa
ChromaPixels(c) == [num |-> c.post.chroma_pixels, den |-> Ssaa(c)]

\* Line 63: the buffer the chromatic aberration reads.
ChromaInputBeforeBloom == loc.combined
ChromaInput == loc.bloom

\* Lines 62-66.
ChromaticAberration ==
    /\ rpc = "chroma"
    /\ LET out == Len(heap) + 1
       IN IF 0 \in ChromaDivisors(heap[ChromaInput], ChromaPixels(cfg))
          THEN Raise("apply_chromatic_aberration")
          ELSE /\ heap' = Append(heap, ApplyChromaticAberration(heap[ChromaInput],
                                                                ChromaPixels(cfg)))
               /\ loc' = [loc EXCEPT !.aberrated = out]
               /\ handed' = [handed EXCEPT !.chroma = <<ChromaPixels(cfg)>>]
               /\ trace' = Append(trace, StageRecord("apply_chromatic_aberration",
                                                     <<ChromaInput>>, out, heap, heap'))
               /\ rpc' = "vignette"
               /\ UNCHANGED <<cfg, seedArg, rng, failure, outcome, calls, ref>>
    /\ UNCHANGED notRenderVars

\* Line 67.
Vignette ==
    /\ rpc = "vignette"
    /\ LET out == Len(heap) + 1
       IN IF 0 \in VignetteDivisors(heap[loc.aberrated], cfg.post.vignette)
          THEN Raise("apply_vignette")
          ELSE /\ heap' = Append(heap, ApplyVignette(heap[loc.aberrated],
                                                     cfg.post.vignette))
               /\ loc' = [loc EXCEPT !.vignetted = out]
               /\ trace' = Append(trace, StageRecord("apply_vignette",
                                                     <<loc.aberrated>>, out, heap, heap'))
               /\ rpc' = "grain"
               /\ UNCHANGED <<cfg, seedArg, rng, handed, failure, outcome, calls, ref>>
    /\ UNCHANGED notRenderVars

\* Line 68: amount = config.post.grain * ssaa
GrainAmount(c) == c.post.grain * Ssaa(c)

GrainStage ==
    /\ rpc = "grain"
    /\ LET out == Len(heap) + 1
       IN /\ heap' = Append(heap, AddGrain(heap[loc.vignetted], GrainAmount(cfg), rng))
          /\ rng' = RngAfter(rng, GrainDraws(heap[loc.vignetted], GrainAmount(cfg)))
          /\ loc' = [loc EXCEPT !.grained = out]
          /\ handed' = [handed EXCEPT !.grain = <<GrainAmount(cfg)>>]
          /\ trace' = Append(trace, StageRecord("add_grain", <<loc.vignetted>>, out,
                                                heap, heap'))
    /\ rpc' = "tonemap"
    /\ UNCHANGED <<cfg, seedArg, failure, outcome, calls, ref>>
    /\ UNCHANGED notRenderVars

\* Line 69.
ToneMap ==
    /\ rpc = "tonemap"
    /\ LET out == Len(heap) + 1
       IN IF 0 \in ToneMapDivisors(cfg.post.gamma)
          THEN Raise("tone_map_aces")
          ELSE /\ heap' = Append(heap, ToneMapAces(heap[loc.grained], cfg.post.gamma))
               /\ loc' = [loc EXCEPT !.final_linear = out]
               /\ trace' = Append(trace, StageRecord("tone_map_aces", <<loc.grained>>,
                                                     out, heap, heap'))
               /\ rpc' = "finish"
               /\ UNCHANGED <<cfg, seedArg, rng, handed, failure, outcome, calls, ref>>
    /\ UNCHANGED notRenderVars

\* Lines 71-75: the three layers and the final image are downsampled when
\* ssaa > 1, the final image last.
FinalDownsampled(img, c) == IF Ssaa(c) > 1 THEN Downsample(img, Ssaa(c)) ELSE img

\* Lines 71-86: downsample, clamp, build the layer map, return.
Finish ==
    /\ rpc = "finish"
    /\ LET stars == FinalDownsampled(heap[loc.star_layer], cfg)
           core == FinalDownsampled(heap[loc.ui_core], cfg)
           glow == FinalDownsampled(heap[loc.ui_glow], cfg)
           final == FinalDownsampled(heap[loc.final_linear], cfg)
           clamped == ClampImage(final, 0, 100)
           result == [image |-> clamped,
                      layers |-> [stars |-> stars, ui_core |-> core, ui_glow |-> glow,
                                  final_linear |-> CopyImage(clamped)]]
           out == Len(heap) + 1
       IN /\ heap' = IF Ssaa(cfg) > 1
                     THEN Append(heap, clamped)
                     ELSE [heap EXCEPT ![loc.final_linear] = clamped]
          /\ trace' = IF Ssaa(cfg) > 1
                      THEN Append(trace,
                                  [stage |-> "downsample", ins |-> <<loc.final_linear>>,
                                   out |-> out,
                                   before |-> <<heap[loc.final_linear]>>,
                                   after |-> <<heap[loc.final_linear]>>,
                                   result |-> final])
                      ELSE trace
          /\ loc' = IF Ssaa(cfg) > 1 THEN [loc EXCEPT !.final_linear = out] ELSE loc
          /\ outcome' = result
          /\ \E remember \in BOOLEAN :
                ref' = IF remember /\ ~ref.set
                       THEN [set |-> TRUE, at |-> calls, cfg |-> cfg,
                             seed |-> EffectiveSeed(cfg, seedArg), outcome |-> result]
                       ELSE ref
    /\ rpc' = "returned"
    /\ UNCHANGED <<cfg, seedArg, rng, handed, failure, calls>>
    /\ UNCHANGED notRenderVars

RenderNext ==
    \/ StartRender
    \/ DrawStars
    \/ DrawUi
    \/ Composite
    \/ Bloom
    \/ Streak
    \/ SkipStreak
    \/ ChromaticAberration
    \/ Vignette
    \/ GrainStage
    \/ ToneMap
    \/ Finish

----------------------------------------------------------------------------
(* generate.py: _GaussianKernelCache.  A sigma is an integer count of 1/128 *)
(* pixel, so that sigma * 64 is exact and has halves.  A kernel is its size *)
(* and the sigma its values exp(-(dx^2 + dy^2) / (2 sigma^2)) were computed *)
(* from: kernels of different sigma differ in every off-centre value.       *)

Threads == 1..2

\* The sigmas _draw_star may ask for: 0.25, 1.5, 1.5078, 1.5156 px.
SigmaRequests == {32, 192, 193, 194}

\* Python round(): to the nearest integer, a half to the even neighbour.
RoundHalfEven(n, d) ==
    LET q == n \div d
        r == n % d
    IN IF 2 * r < d THEN q
       ELSE IF 2 * r > d THEN q + 1
       ELSE IF q % 2 = 0 THEN q ELSE q + 1

\* math.ceil(n / d)
CeilDiv(n, d) == -((-n) \div d)

\* Line 302: sigma_px = max(0.5, sigma_px)
ClampSigma(s) == Max(64, s)

\* Line 303: key = int(round(sigma_px * 64))
KernelKey(s) == RoundHalfEven(s * 64, 128)

\* Line 306: radius = int(max(2, math.ceil(sigma_px * 3)))
KernelRadius(s) == Max(2, CeilDiv(3 * s, 128))

\* Lines 306-316: the patch built for the (clamped) sigma.
ComputeKernel(s) == [size |-> 2 * KernelRadius(s) + 1, sigma |-> s]

NoKernel == [size |-> 0, sigma |-> 0]

CacheIdle ==
    /\ kcache = <<>>
    /\ tpc = [t \in Threads |-> "idle"]
    /\ tsigma = [t \in Threads |-> 0]
    /\ tkernel = [t \in Threads |-> NoKernel]
    /\ overlapped = [t \in Threads |-> FALSE]
    /\ returns = <<>>

\* The calls made so far, returned or in flight.
Requests == Len(returns) + Cardinality({t \in Threads : tpc[t] # "idle"})

\* Lines 301-304: a call clamps the sigma, computes the key and tests
\* `key in cls._cache`.
Lookup(t) ==
    /\ tpc[t] = "idle"
    /\ Requests < MaxRequests
    /\ \E s \in SigmaRequests :
          /\ tsigma' = [tsigma EXCEPT ![t] = s]
          /\ tpc' = [tpc EXCEPT ![t] = IF KernelKey(ClampSigma(s)) \in DOMAIN kcache
                                       THEN "hit" ELSE "miss"]
    /\ tkernel' = [tkernel EXCEPT ![t] = NoKernel]
    /\ overlapped' = [u \in Threads |->
                        IF u = t THEN \E v \in Threads \ {t} : tpc[v] # "idle"
                        ELSE overlapped[u] \/ tpc[u] # "idle"]
    /\ UNCHANGED <<kcache, returns>>
    /\ UNCHANGED notCacheVars

\* Line 305, after a hit: cls._cache[key] is read, with no lock held since
\* the test of line 304; a key that is gone by now raises KeyError and the
\* call ends.
Fetch(t) ==
    /\ tpc[t] = "hit"
    /\ IF KernelKey(ClampSigma(tsigma[t])) \in DOMAIN kcache
       THEN /\ tkernel' = [tkernel EXCEPT ![t] = kcache[KernelKey(ClampSigma(tsigma[t]))]]
            /\ tpc' = [tpc EXCEPT ![t] = "return"]
            /\ UNCHANGED returns
       ELSE /\ returns' = Append(returns, [sigma |-> tsigma[t], kernel |-> NoKernel,
                                          overlapped |-> overlapped[t],
                                          raised |-> "KeyError"])
            /\ tpc' = [tpc EXCEPT ![t] = "idle"]
            /\ UNCHANGED tkernel
    /\ UNCHANGED <<kcache, tsigma, overlapped>>
    /\ UNCHANGED notCacheVars

\* Lines 306-317: after a miss the patch is built and stored under the key.
Insert(t) ==
    /\ tpc[t] = "miss"
    /\ LET kernel == ComputeKernel(ClampSigma(tsigma[t]))
       IN /\ kcache' = (KernelKey(ClampSigma(tsigma[t])) :> kernel) @@ kcache
          /\ tkernel' = [tkernel EXCEPT ![t] = kernel]
    /\ tpc' = [tpc EXCEPT ![t] = "return"]
    /\ UNCHANGED <<tsigma, overlapped, returns>>
    /\ UNCHANGED notCacheVars

\* Lines 305 and 318: the call returns its patch.
Return(t) ==
    /\ tpc[t] = "return"
    /\ returns' = Append(returns, [sigma |-> tsigma[t], kernel |-> tkernel[t],
                                   overlapped |-> overlapped[t], raised |-> "none"])
    /\ tpc' = [tpc EXCEPT ![t] = "idle"]
    /\ UNCHANGED <<kcache, tsigma, tkernel, overlapped>>
    /\ UNCHANGED notCacheVars

\* Line 298: the class-level dict is emptied (_cache.clear()).
ClearCache ==
    /\ kcache # <<>>
    /\ kcache' = <<>>
    /\ UNCHANGED <<tpc, tsigma, tkernel, overlapped, returns>>
    /\ UNCHANGED notCacheVars

CacheNext ==
    \/ \E t \in Threads : Lookup(t)
    \/ \E t \in Threads : Fetch(t)
    \/ \E t \in Threads : Insert(t)
    \/ \E t \in Threads : Return(t)
    \/ ClearCache

----------------------------------------------------------------------------
(* camera.py.  Floats are exact fractions [num, den] with den > 0, kept in  *)
(* lowest terms.                                                            *)

RECURSIVE Gcd(_, _)
Gcd(a, b) == IF b = 0 THEN a ELSE Gcd(b, a % b)

Rat(n, d) == LET g == Gcd(Abs(n), d) IN [num |-> n \div g, den |-> d \div g]

RMul(a, b) ==
    LET g1 == Gcd(Abs(a.num), b.den)
        g2 == Gcd(Abs(b.num), a.den)
    IN Rat((a.num \div g1) * (b.num \div g2), (a.den \div g2) * (b.den \div g1))

\* a / b for b # 0
RDiv(a, b) ==
    IF b.num > 0 THEN RMul(a, [num |-> b.den, den |-> b.num])
    ELSE RMul(a, [num |-> -b.den, den |-> -b.num])

\* a + b: the whole parts are added apart from the fractional parts, so
\* that only the result itself has to fit the integers.
RAdd(a, b) ==
    LET g == Gcd(a.den, b.den)
        frac == Rat((a.num % a.den) * (b.den \div g) + (b.num % b.den) * (a.den \div g),
                    (a.den \div g) * b.den)
    IN [num |-> (a.num \div a.den + b.num \div b.den) * frac.den + frac.num,
        den |-> frac.den]

RNeg(a) == [num |-> -a.num, den |-> a.den]
RSub(a, b) == RAdd(a, RNeg(b))
\* a <= b for n1/d1 and n2/d2 with positive denominators, by whole parts
\* and then the inverted remainders, so that no product is formed.
RECURSIVE LeqFraction(_, _, _, _)
LeqFraction(n1, d1, n2, d2) ==
    IF n1 \div d1 # n2 \div d2 THEN n1 \div d1 < n2 \div d2
    ELSE IF n1 % d1 = 0 THEN TRUE
    ELSE IF n2 % d2 = 0 THEN FALSE
    ELSE LeqFraction(d2, n2 % d2, d1, n1 % d1)
RLeq(a, b) == LeqFraction(a.num, a.den, b.num, b.den)
RMax(a, b) == IF RLeq(a, b) THEN b ELSE a

\* math.tan(fov / 2) with fov = max(1e-3, math.radians(fov_deg)), line 66:
\* tan(0.0005), tan(17.5 deg) and tan(45 deg), each as the closest
\* fraction with a denominator below 1000 (tan(17.5 deg) = 0.3152988).
TanHalfFov(fov_deg) ==
    IF fov_deg <= 0 THEN Rat(1, 2000)
    ELSE IF fov_deg = 35 THEN Rat(169, 536)
    ELSE Rat(1, 1)

\* math.sin and math.cos of math.radians(pitch_deg), line 92 with lines 33
\* and 34: sin(83 deg) = 0.9925462 and cos(83 deg) = 0.1218693 as the
\* closest fractions with a denominator below 1000.
SinPitch(pitch_deg) ==
    IF pitch_deg = 0 THEN Rat(0, 1)
    ELSE IF pitch_deg = 90 THEN Rat(1, 1)
    ELSE Rat(799, 805)
CosPitch(pitch_deg) ==
    IF pitch_deg = 0 THEN Rat(1, 1)
    ELSE IF pitch_deg = 90 THEN Rat(0, 1)
    ELSE Rat(73, 599)

\* The cameras: z_near and z_far in 1/1000, fov_deg and pitch_deg in degrees.
\* A field of view clamped to 1e-3 is taken with the pitches 0 and 90.
Cameras ==
    { [z_near |-> zn, z_far |-> zf, fov_deg |-> fov, pitch_deg |-> pitch] :
        zn \in {99, -1, -5000}, zf \in {6000, 0, -3000},
        fov \in {35, 90}, pitch \in {0, 83, 90} }
    \cup
    { [z_near |-> zn, z_far |-> zf, fov_deg |-> fov, pitch_deg |-> pitch] :
        zn \in {99, -1, -5000}, zf \in {6000, 0, -3000},
        fov \in {0, -10}, pitch \in {0, 90} }

\* Ring lists: r and width in 1/10.
RingLists == { <<>>, <<[r |-> 10, width |-> 4]>>, <<[r |-> 0, width |-> 0]>> }

CameraResolutions ==
    { [width |-> 4, height |-> 4, ssaa |-> 1], [width |-> 2, height |-> 1, ssaa |-> 2] }

\* Line 69: distance = max(camera.z_near + 1e-3, camera.z_far)
Distance(cam) == Rat(Max(cam.z_near + 1, cam.z_far), 1000)

\* Lines 71-77: the largest ring radius, 1.0 when it is <= 1e-6.
RECURSIVE MaxRingRadius(_, _)
MaxRingRadius(rs, acc) ==
    IF rs = <<>> THEN acc
    ELSE LET radius == RAdd(Rat(Head(rs).r, 10), RMax(Rat(3 * Head(rs).width, 40), Rat(0, 1)))
         IN MaxRingRadius(Tail(rs), IF RLeq(radius, acc) THEN acc ELSE radius)
MaxRadius(rs) ==
    LET m == MaxRingRadius(rs, Rat(0, 1))
    IN IF RLeq(m, Rat(1, 1000000)) THEN Rat(1, 1) ELSE m

\* Line 63: base_radius = min(width, height) * 0.5 * 0.92
BaseRadius(res) ==
    Rat(23 * Min(res.width * res.ssaa, res.height * res.ssaa), 50)

\* Line 67: focal_length = (height / 2) / tan(fov / 2)
FocalLength(res, cam) == RDiv(Rat(res.height * res.ssaa, 2), TanHalfFov(cam.fov_deg))

\* Line 79: the divisor of unit_scale.
UnitScaleDivisor(res, cam, rs) == RMul(FocalLength(res, cam), MaxRadius(rs))

UnitScale(res, cam, rs) ==
    RDiv(RMul(BaseRadius(res), Distance(cam)), UnitScaleDivisor(res, cam, rs))

\* Line 80: the divisor of pixel_to_radius.
PixelToRadiusDivisor(res, cam, rs) ==
    RMul(FocalLength(res, cam), UnitScale(res, cam, rs))

NoProjection ==
    [center_x |-> Rat(0, 1), center_y |-> Rat(0, 1), focal_length |-> Rat(0, 1),
     distance |-> Rat(0, 1), unit_scale |-> Rat(0, 1), pixel_to_radius |-> Rat(0, 1),
     pitch_deg |-> 0]
NoPoint == [screen_x |-> Rat(0, 1), screen_y |-> Rat(0, 1), z_camera |-> Rat(0, 1)]

CameraIdle ==
    /\ camera = CHOOSE c \in Cameras : TRUE
    /\ crings = <<>>
    /\ cres = CHOOSE r \in CameraResolutions : TRUE
    /\ proj = NoProjection
    /\ point = NoPoint
    /\ cpc = "idle"
    /\ cfailure = "none"

CameraInit ==
    /\ camera \in Cameras
    /\ crings \in RingLists
    /\ cres \in CameraResolutions
    /\ proj = NoProjection
    /\ point = NoPoint
    /\ cpc = "start"
    /\ cfailure = "none"

\* create_projection, lines 61-93: a zero divisor raises ZeroDivisionError.
CreateProjection ==
    /\ cpc = "start"
    /\ IF UnitScaleDivisor(cres, camera, crings).num = 0
       THEN /\ cfailure' = "unit_scale"
            /\ cpc' = "raised"
            /\ UNCHANGED proj
       ELSE IF PixelToRadiusDivisor(cres, camera, crings).num = 0
            THEN /\ cfailure' = "pixel_to_radius"
                 /\ cpc' = "raised"
                 /\ UNCHANGED proj
            ELSE /\ proj' = [center_x |-> Rat(cres.width * cres.ssaa, 2),
                             center_y |-> Rat(cres.height * cres.ssaa, 2),
                             focal_length |-> FocalLength(cres, camera),
                             distance |-> Distance(camera),
                             unit_scale |-> UnitScale(cres, camera, crings),
                             pixel_to_radius |->
                                 RDiv(Distance(camera),
                                      PixelToRadiusDivisor(cres, camera, crings)),
                             pitch_deg |-> camera.pitch_deg]
                 /\ cpc' = "created"
                 /\ UNCHANGED cfailure
    /\ UNCHANGED <<camera, crings, cres, point>>
    /\ UNCHANGED notCameraVars

\* The angles ellipse_parameters projects at: 0, pi / 2 and -pi / 2.
Directions == { [cos |-> 1, sin |-> 0], [cos |-> 0, sin |-> 1], [cos |-> 0, sin |-> -1] }

\* Lines 35-37: z_camera = distance - z', floored at 1e-5.
ZCamera(p, y_world) ==
    LET z_prime == RNeg(RMul(y_world, SinPitch(p.pitch_deg)))
        z_camera == RSub(p.distance, z_prime)
    IN IF RLeq(z_camera, Rat(1, 100000)) THEN Rat(1, 100000) ELSE z_camera

\* ProjectionParams.project, lines 27-40; radius in 1/10.
Project ==
    /\ cpc = "created"
    /\ \E radius \in {-10, 0, 10}, dir \in Directions :
          LET r == RMax(Rat(0, 1), Rat(radius, 10))
              x_world == RMul(RMul(Rat(dir.cos, 1), r), proj.unit_scale)
              y_world == RMul(RMul(Rat(dir.sin, 1), r), proj.unit_scale)
              y_prime == RMul(y_world, CosPitch(proj.pitch_deg))
              z_camera == ZCamera(proj, y_world)
          IN IF z_camera.num = 0
             THEN /\ cfailure' = "project"
                  /\ cpc' = "raised"
                  /\ UNCHANGED point
             ELSE /\ point' =
                       [screen_x |-> RAdd(proj.center_x,
                                          RDiv(RMul(proj.focal_length, x_world), z_camera)),
                        screen_y |-> RAdd(proj.center_y,
                                          RDiv(RMul(proj.focal_length, y_prime), z_camera)),
                        z_camera |-> z_camera]
                  /\ cpc' = "projected"
                  /\ UNCHANGED cfailure
    /\ UNCHANGED <<camera, crings, cres, proj>>
    /\ UNCHANGED notCameraVars

CameraNext ==
    \/ CreateProjection
    \/ Project

----------------------------------------------------------------------------
(* labels.py *)

\* _glyph_advance: every glyph of FONT_DATA is at most 5 wide, and an
\* unknown character falls back to the blank: width + 1 = 6.0, in 1/60.
GlyphAdvance60 == 6 * 60

\* _text_advances: the advance of each of the n characters in 1/60 units;
\* tracking / 6 is added to all but the last, each floored at 0.4.
TextAdvancesTrackLast60(nchars, tracking60) ==
    [k \in 1..nchars |-> Max(24, GlyphAdvance60 + tracking60 \div 6)]
TextAdvances60(nchars, tracking60) ==
    [k \in 1..nchars |->
        Max(24, IF k < nchars
                THEN GlyphAdvance60 + tracking60 \div 6
                ELSE GlyphAdvance60)]

\* effective_radius = max((radius_x + radius_y) * 0.5, 1.0), doubled.
EffectiveRadiusNoFloor2(spec) == spec.radius_x + spec.radius_y
EffectiveRadius2(spec) == Max(spec.radius_x + spec.radius_y, 2)

\* length / radius in angle units, for a length in 1/60 and a doubled
\* radius: 2 * 50850 / 60 = 1695.
AngleOfArc(length60, radius2) ==
    LET unit == 1695 * Grain
    IN (length60 \div radius2) * unit + ((length60 % radius2) * unit) \div radius2

\* arc_angle = sum(advances) * scale / effective_radius
ArcAngle(spec) ==
    AngleOfArc(SumSeq(TextAdvances60(spec.nchars, spec.tracking)) * spec.scale,
               EffectiveRadius2(spec))

\* _wrap(angle) = (angle + pi) % (2 pi) - pi
WrapNever(angle) == angle
Wrap(angle) == ((angle + PI) % TwoPi) - PI

\* The floats of the code carry rounding errors far below one angle unit,
\* so a float is told from its exact value only where the code branches on
\* an exact tie; there the rounding decides, and both outcomes are kept.
\* _wrap of an angle that stands exactly on the seam comes out next to -pi
\* or next to +pi.
WrapRounded(angle) ==
    IF (angle + PI) % TwoPi = 0 THEN {-PI, PI} ELSE {Wrap(angle)}

\* Line 142, abs(diff) < min_sep: what the comparison of the floats can
\* give.
LessRounded(x, y) == IF x = y THEN BOOLEAN ELSE {x < y}

\* Line 143, 1.0 if diff >= 0 else -1.0.  A difference of zero between two
\* angles no pair step has assigned yet is the float 0.0; otherwise it is a
\* rounding error of either sign.
StepDirections(diff, exact) ==
    IF diff > 0 THEN {1}
    ELSE IF diff < 0 THEN {-1}
    ELSE IF exact THEN {1} ELSE {1, -1}

\* min_sep = (a.arc_angle + b.arc_angle) * 0.5 + padding
MinSepNoPadding(a, b, pad) == (a.arc_angle + b.arc_angle) \div 2
MinSep(a, b, pad) == (a.arc_angle + b.arc_angle) \div 2 + pad

\* by_ring: the ring indices in the order of their first label.
RECURSIVE RingOrderFrom(_, _)
RingOrderFrom(ss, seen) ==
    IF ss = <<>> THEN <<>>
    ELSE IF Head(ss).ring_index \in seen
         THEN RingOrderFrom(Tail(ss), seen)
         ELSE <<Head(ss).ring_index>>
                  \o RingOrderFrom(Tail(ss), seen \cup {Head(ss).ring_index})
RingOrder(ss) == RingOrderFrom(ss, {})

\* by_ring[r]: the indices of the labels of ring r, in list order.
RECURSIVE MembersFrom(_, _, _)
MembersFrom(ss, r, k) ==
    IF k > Len(ss) THEN <<>>
    ELSE (IF ss[k].ring_index = r THEN <<k>> ELSE <<>>) \o MembersFrom(ss, r, k + 1)
MembersOfEveryRing(ss, r) == [k \in 1..Len(ss) |-> k]
Members(ss, r) == MembersFrom(ss, r, 1)

CurrentRing == RingOrder(specs)[lgroup]
CurrentMembers == Members(specs, CurrentRing)

\* The candidate labels: text length, anchor ellipse, initial angle in
\* centi-radians (scaled below), tracking in 1/60, scale.
LabelCandidates ==
    { c \in
      { [ring_index |-> r, nchars |-> n, radius_x |-> 14, radius_y |-> 10,
       initial_angle |-> CentiRad(a), tracking |-> 0, scale |-> 1] :
         r \in {0, 1}, n \in {1, 7}, a \in {0, 8} } :
        c.ring_index = 1 => c.initial_angle = 0 }
    \cup
    { [ring_index |-> 0, nchars |-> 1, radius_x |-> 14, radius_y |-> 10,
       initial_angle |-> CentiRad(a), tracking |-> 0, scale |-> 1] :
         a \in {310, -310, 384} }

\* A list of LabelSpec objects: object is the position at which the
\* object first stands in the list, so that two entries are the same
\* object (`is`) exactly when their object fields are equal.
WithObject(c, o) ==
    [ring_index |-> c.ring_index, nchars |-> c.nchars, radius_x |-> c.radius_x,
     radius_y |-> c.radius_y, initial_angle |-> c.initial_angle,
     tracking |-> c.tracking, scale |-> c.scale, object |-> o]

\* The ways the entries of cs are objects: every entry an object of its
\* own; one later entry the same object as an equal earlier one; every
\* entry the same object as the first entry equal to it.
FirstEqual(cs, k) == CHOOSE i \in 1..k : cs[i] = cs[k] /\ \A j \in 1..(i - 1) : cs[j] # cs[k]
ObjectMaps(cs) ==
    { [k \in 1..Len(cs) |-> k] }
    \cup { [k \in 1..Len(cs) |-> IF k = p[2] THEN p[1] ELSE k] :
             p \in { q \in (1..Len(cs)) \X (1..Len(cs)) :
                        q[1] < q[2] /\ FirstEqual(cs, q[2]) = q[1] } }
    \cup { [k \in 1..Len(cs) |-> FirstEqual(cs, k)] }

FreshSpecs(cs) == [k \in 1..Len(cs) |-> WithObject(cs[k], k)]

\* Lists of up to MaxLabels specs, every entry an object of its own, and
\* lists of up to three entries in which an object stands more than once.
SpecLists ==
    { FreshSpecs(cs) : cs \in UNION { [1..n -> LabelCandidates] : n \in 1..MaxLabels } }
    \cup
    UNION { { [k \in 1..Len(cs) |-> WithObject(cs[k], o[k])] : o \in ObjectMaps(cs) } :
            cs \in UNION { [1..n -> LabelCandidates] : n \in 2..Min(MaxLabels, 3) } }

\* One LabelPlacement (lines 113-125): spec is the LabelSpec object it
\* refers to, advances the list _text_advances built; stepped records that
\* theta was assigned by a pair step (lines 145-146).
Placement(spec) ==
    [spec |-> spec.object,
     theta |-> spec.initial_angle,
     arc_angle |-> ArcAngle(spec),
     advances |-> TextAdvances60(spec.nchars, spec.tracking),
     stepped |-> FALSE]

\* Line 144 and the assignments of lines 145-146 on the grid: the shift
\* (min_sep - abs(diff)) * 0.5 of an even lack is a whole number of angle
\* units; that of an odd lack stands half a unit between two grid angles,
\* and an assignment can leave its label on either of them.
RoundedHalf(lack) ==
    IF lack % 2 = 0 THEN {lack \div 2} ELSE {lack \div 2, lack \div 2 + 1}

\* Lines 140-147 for the placements a and b of one pair: the pair as the
\* step can leave it, with overlap telling whether line 142 held.
PairOutcomes(a, b, pad) ==
    LET min_sep == MinSep(a, b, pad)
    IN UNION {
         UNION {
           IF ~overlap
           THEN { [a |-> a, b |-> b, overlap |-> FALSE] }
           ELSE { [a |-> [a EXCEPT !.theta = a.theta - direction * shift_a,
                                   !.stepped = TRUE],
                   b |-> [b EXCEPT !.theta = b.theta + direction * shift_b,
                                   !.stepped = TRUE],
                   overlap |-> TRUE] :
                     direction \in StepDirections(diff, ~a.stepped /\ ~b.stepped),
                     shift_a \in RoundedHalf(min_sep - Abs(diff)),
                     shift_b \in RoundedHalf(min_sep - Abs(diff)) }
           : overlap \in LessRounded(Abs(diff), min_sep) }
         : diff \in WrapRounded(b.theta - a.theta) }

LabelsIdle ==
    /\ specs = <<>>
    /\ padding = DefaultPadding
    /\ iterations = 0
    /\ placements = <<>>
    /\ lpc = "idle"
    /\ lgroup = 1
    /\ lpass = 0
    /\ li = 1
    /\ lj = 2
    /\ moved = FALSE
    /\ ltook = FALSE
    /\ brokeOut = {}

\* The lists laid out with the default number of passes: up to three labels
\* of one and of seven glyphs on ring 0, at 0 and at -3.10 rad.
DefaultRunLists ==
    { FreshSpecs(cs) :
        cs \in UNION { [1..n -> { c \in LabelCandidates :
                                    /\ c.ring_index = 0
                                    /\ c.initial_angle \in {0, CentiRad(-310)} }] :
                        n \in 1..Min(MaxLabels, 3) } }

\* A call of layout_labels: any list of specs with no pass or a few passes
\* allowed, or one of the lists above with the default of 140.
LabelsInit ==
    /\ \/ specs \in SpecLists /\ iterations \in 0..MaxIterations
       \/ specs \in DefaultRunLists /\ iterations = DefaultIterations
    /\ padding = DefaultPadding
    /\ placements = <<>>
    /\ lpc = "start"
    /\ lgroup = 1
    /\ lpass = 0
    /\ li = 1
    /\ lj = 2
    /\ moved = FALSE
    /\ ltook = FALSE
    /\ brokeOut = {}

\* Lines 112-129: build the placements and the ring groups.
BuildPlacements ==
    /\ UNCHANGED notLabelVars
    /\ lpc = "start"
    /\ placements' = [k \in 1..Len(specs) |-> Placement(specs[k])]
    /\ lpc' = "group"
    /\ UNCHANGED <<specs, padding, iterations, lgroup, lpass, li, lj, moved, ltook, brokeOut>>

\* Lines 131-133: take the next ring group; one label or fewer: continue.
\* A larger group comes to the head of its loop with no pass made.
EnterGroup ==
    /\ UNCHANGED notLabelVars
    /\ lpc = "group"
    /\ lgroup <= Len(RingOrder(specs))
    /\ IF Len(CurrentMembers) <= 1
       THEN /\ lgroup' = lgroup + 1
            /\ UNCHANGED <<lpc, lpass>>
       ELSE /\ lpc' = "loop"
            /\ lpass' = 0
            /\ UNCHANGED lgroup
    /\ UNCHANGED <<specs, padding, iterations, placements, li, lj, moved, ltook, brokeOut>>

\* Lines 134-135, `for _ in range(iterations)`: while passes remain the
\* next pass starts with moved = False; once range(iterations) is used up
\* (at once when iterations <= 0) the loop is left.
NextPass ==
    /\ UNCHANGED notLabelVars
    /\ lpc = "loop"
    /\ IF lpass < iterations
       THEN /\ lpass' = lpass + 1
            /\ li' = 1
            /\ lj' = 2
            /\ moved' = FALSE
            /\ lpc' = "pair"
       ELSE /\ lpc' = "wrap"
            /\ UNCHANGED <<lpass, li, lj, moved>>
    /\ UNCHANGED <<specs, padding, iterations, placements, lgroup, ltook, brokeOut>>

\* Lines 136-147: one pair (i, j) of the pass.
RelaxPair ==
    /\ UNCHANGED notLabelVars
    /\ lpc = "pair"
    /\ LET ia == CurrentMembers[li]
           ib == CurrentMembers[lj]
           n == Len(CurrentMembers)
       IN /\ \E o \in PairOutcomes(placements[ia], placements[ib], padding) :
                /\ placements' = [placements EXCEPT ![ia] = o.a, ![ib] = o.b]
                /\ moved' = (moved \/ o.overlap)
                /\ ltook' = o.overlap
          /\ IF lj < n
             THEN /\ lj' = lj + 1
                  /\ UNCHANGED <<li, lpc>>
             ELSE IF li + 1 < n
                  THEN /\ li' = li + 1
                       /\ lj' = li + 2
                       /\ UNCHANGED lpc
                  ELSE /\ lpc' = "passEnd"
                       /\ UNCHANGED <<li, lj>>
    /\ UNCHANGED <<specs, padding, iterations, lgroup, lpass, brokeOut>>

\* Lines 148-149: the end of a pass: break when nothing moved, otherwise
\* back to the head of the loop.
EndPass ==
    /\ UNCHANGED notLabelVars
    /\ lpc = "passEnd"
    /\ IF ~moved
       THEN /\ brokeOut' = brokeOut \cup {CurrentRing}
            /\ lpc' = "wrap"
       ELSE /\ lpc' = "loop"
            /\ UNCHANGED brokeOut
    /\ UNCHANGED <<specs, padding, iterations, placements, lgroup, lpass, li, lj, moved, ltook>>

\* Lines 150-151: the group's angles are wrapped once its loop is left.
\* The lists this can leave: an angle on the seam goes to either end.
WrapGroup(pl, members) ==
    { [k \in 1..Len(pl) |->
          IF \E m \in 1..Len(members) : members[m] = k
          THEN [pl[k] EXCEPT !.theta = IF Wrap(pl[k].theta) = -PI /\ up[k]
                                        THEN PI ELSE Wrap(pl[k].theta)]
          ELSE pl[k]] : up \in [1..Len(pl) -> BOOLEAN] }

WrapPlacements ==
    /\ UNCHANGED notLabelVars
    /\ lpc = "wrap"
    /\ placements' \in WrapGroup(placements, CurrentMembers)
    /\ lgroup' = lgroup + 1
    /\ lpc' = "group"
    /\ UNCHANGED <<specs, padding, iterations, lpass, li, lj, moved, ltook, brokeOut>>

\* Lines 153-159: for each spec the first placement whose spec is that
\* object.
FirstWithSpec(pl, object) ==
    pl[CHOOSE k \in 1..Len(pl) :
          /\ pl[k].spec = object
          /\ \A m \in 1..(k - 1) : pl[m].spec # object]
Ordered(ss, pl) == [k \in 1..Len(ss) |-> FirstWithSpec(pl, ss[k].object)]

ReturnPlacements ==
    /\ UNCHANGED notLabelVars
    /\ lpc = "group"
    /\ lgroup > Len(RingOrder(specs))
    /\ placements' = Ordered(specs, placements)
    /\ lpc' = "done"
    /\ UNCHANGED <<specs, padding, iterations, lgroup, lpass, li, lj, moved, ltook, brokeOut>>

LabelsNext ==
    \/ BuildPlacements
    \/ EnterGroup
    \/ NextPass
    \/ RelaxPair
    \/ EndPass
    \/ WrapPlacements
    \/ ReturnPlacements

----------------------------------------------------------------------------
(* Readouts on rings: shapes.py render_ui_layers, lines 302-307, and        *)
(* _build_label_specs, lines 144-202.  The LabelSpec of labels.py (lines   *)
(* 62-71) has the fields ring_index, text, center, radius_x, radius_y,      *)
(* initial_angle, tracking and scale, and draw_label_layers (lines 178-201) *)
(* reads no alignment.                                                      *)

Alignments == {"start", "center", "end"}

\* The fields the dataclass LabelSpec accepts as keyword arguments.
LabelSpecFields ==
    {"ring_index", "text", "center", "radius_x", "radius_y",
     "initial_angle", "tracking", "scale"}

\* The keyword arguments of the LabelSpec call of lines 161-172 (a ring's
\* own label) and of lines 187-200 (a readout).
RingLabelKeywords == LabelSpecFields
ReadoutKeywords == LabelSpecFields \cup {"alignment", "baseline"}

\* The readouts of a config: ring_index from -1 to the number of rings, a
\* text of one or two glyphs at 0.63 rad (36 degrees), any alignment.
ReadoutCandidates ==
    { [ring_index |-> r, nchars |-> n, initial_angle |-> CentiRad(63),
       alignment |-> al] :
         r \in (-1)..MaxRings, n \in {1, 2}, al \in Alignments }

\* The spec of a ring's own label, lines 155-173: three glyphs at pi / 2.
RingLabelSpec(index) ==
    [ring_index |-> index, nchars |-> 3, radius_x |-> 14, radius_y |-> 10,
     initial_angle |-> PI \div 2, tracking |-> 0, scale |-> 1, object |-> index + 1]

\* The spec lines 176-199 ask for: the readout's ring, text and angle.
ReadoutSpec(readout) ==
    [ring_index |-> readout.ring_index, nchars |-> readout.nchars,
     radius_x |-> 14, radius_y |-> 10, initial_angle |-> readout.initial_angle,
     tracking |-> 0, scale |-> 1, object |-> 0]

RECURSIVE RingLabelSpecs(_, _)
RingLabelSpecs(rings, index) ==
    IF index >= Len(rings) THEN <<>>
    ELSE (IF rings[index + 1].label THEN <<RingLabelSpec(index)>> ELSE <<>>)
            \o RingLabelSpecs(rings, index + 1)

AlignIdle ==
    /\ aconfig = [rings |-> <<>>, readouts |-> <<>>]
    /\ aspecs = <<>>
    /\ aidx = 1
    /\ adrawn = <<>>
    /\ afailure = "none"
    /\ apc = "idle"

\* render_ui_layers on a config of one to MaxRings rings, each with or
\* without a label of its own, and up to MaxReadouts readouts.
AlignInit ==
    /\ aconfig \in
          { [rings |-> rs, readouts |-> ro] :
              rs \in UNION { [1..n -> { [label |-> b] : b \in BOOLEAN }] : n \in 1..MaxRings },
              ro \in UNION { [1..n -> ReadoutCandidates] : n \in 0..MaxReadouts } }
    /\ aspecs = <<>>
    /\ aidx = 1
    /\ adrawn = <<>>
    /\ afailure = "none"
    /\ apc = "start"

\* _build_label_specs, lines 152-173: one LabelSpec per ring with a label.
BuildRingLabels ==
    /\ apc = "start"
    /\ aspecs' = RingLabelSpecs(aconfig.rings, 0)
    /\ apc' = "readouts"
    /\ UNCHANGED <<aconfig, aidx, adrawn, afailure>>
    /\ UNCHANGED notAlignVars

\* _build_label_specs, lines 175-200, for the next readout: one whose
\* ring_index names no ring is skipped; for any other LabelSpec is called
\* with alignment= and baseline=, which it does not accept: TypeError.
BuildReadoutSpec ==
    /\ apc = "readouts"
    /\ aidx <= Len(aconfig.readouts)
    /\ LET readout == aconfig.readouts[aidx]
       IN IF readout.ring_index < 0 \/ readout.ring_index >= Len(aconfig.rings)
          THEN /\ aidx' = aidx + 1
               /\ UNCHANGED <<aspecs, afailure, apc>>
          ELSE /\ ~(ReadoutKeywords \subseteq LabelSpecFields)
               /\ afailure' = "TypeError"
               /\ apc' = "raised"
               /\ UNCHANGED <<aspecs, aidx>>
    /\ UNCHANGED <<aconfig, adrawn>>
    /\ UNCHANGED notAlignVars

\* Line 202 and lines 302-303: the specs are returned; with none of them
\* no label is laid out or drawn.
ReturnLabelSpecs ==
    /\ apc = "readouts"
    /\ aidx > Len(aconfig.readouts)
    /\ apc' = IF aspecs = <<>> THEN "finished" ELSE "specs"
    /\ UNCHANGED <<aconfig, aspecs, aidx, adrawn, afailure>>
    /\ UNCHANGED notAlignVars

\* Lines 304-305: layout_labels leaves a label that is alone on its ring at
\* its initial angle (labels.py 132-133), and draw_label_layers (lines
\* 188-199) starts at theta - arc_angle / 2 and advances by the whole
\* footprint, so the label is centred at theta.
DrawLabels ==
    /\ apc = "specs"
    /\ adrawn' = [k \in 1..Len(aspecs) |->
                    [ring_index |-> aspecs[k].ring_index,
                     nchars |-> aspecs[k].nchars,
                     centre |-> aspecs[k].initial_angle]]
    /\ apc' = "finished"
    /\ UNCHANGED <<aconfig, aspecs, aidx, afailure>>
    /\ UNCHANGED notAlignVars

AlignNext ==
    \/ BuildRingLabels
    \/ BuildReadoutSpec
    \/ ReturnLabelSpecs
    \/ DrawLabels

----------------------------------------------------------------------------
(* image.py: FloatImage.to_png_bytes, and scripts/generate_star_chart.py:  *)
(* _load_png.  A channel value is an integer count of 1/510, so that        *)
(* v * 255 + 0.5 is the half-integer (k + 1) / 2.  A file is its signature  *)
(* and its chunks [tag, ihdr, zdata]; the uncompressed pixel stream is the  *)
(* flat list of bytes, and zlib is a stream that starts with the header     *)
(* byte 0x78 = 120 and inflates to what was deflated.                       *)

\* Pixels the buffers are filled with: below 0, 0, just above 0, one half,
\* just below 1, 1, above 1, and two odd values.
PixelPalette == << <<-10, 0, 1>>, <<255, 509, 510>>, <<600, 253, 3>> >>

PngImages ==
    { [w |-> w, h |-> h,
       px |-> [i \in 1..(w * h) |-> PixelPalette[((i + shift) % Len(PixelPalette)) + 1]]] :
        w \in 1..MaxPngDim, h \in 1..MaxPngDim, shift \in 0..(Len(PixelPalette) - 1) }

\* to_uint8_rows, lines 153-155: int(min(max(v, 0.0), 1.0) * 255.0 + 0.5)
QuantiseTruncating(k) == Min(Max(k, 0), 510) \div 2
Quantise(k) == (Min(Max(k, 0), 510) + 1) \div 2

\* to_uint8_rows: per row the filter byte 0, then r, g, b of every pixel.
RECURSIVE RowBytes(_, _, _)
RowBytes(img, y, x) ==
    IF x >= img.w THEN <<>>
    ELSE LET p == img.px[y * img.w + x + 1]
         IN <<Quantise(p[1]), Quantise(p[2]), Quantise(p[3])>> \o RowBytes(img, y, x + 1)

RECURSIVE AllRows(_, _)
AllRows(img, y) ==
    IF y >= img.h THEN <<>>
    ELSE <<0>> \o RowBytes(img, y, 0) \o AllRows(img, y + 1)

\* zlib.compress and zlib.decompress.
Deflate(data) == <<120>> \o data
CanInflate(z) == Len(z) >= 1 /\ z[1] = 120
Inflate(z) == Tail(z)

PngSignature == "\\x89PNG\\r\\n\\x1a\\n"

PngChunk(tag, ihdr, zdata) == [tag |-> tag, ihdr |-> ihdr, zdata |-> zdata]

\* to_png_bytes, lines 162-180: signature, IHDR (width, height, 8, 2, 0, 0,
\* 0), one IDAT with the deflated rows, IEND.
ToPngBytes(img) ==
    [sig |-> PngSignature,
     chunks |-> << PngChunk("IHDR", <<img.w, img.h, 8, 2, 0, 0, 0>>, <<>>),
                   PngChunk("IDAT", <<>>, Deflate(AllRows(img, 0))),
                   PngChunk("IEND", <<>>, <<>>) >>]

NoFile == [sig |-> "", chunks |-> <<>>]
NoPngImage == [w |-> 0, h |-> 0, px |-> <<>>]

PngIdle ==
    /\ pimage = NoPngImage
    /\ pfile = NoFile
    /\ ptamper = "none"
    /\ pout = NoPngImage
    /\ perror = "none"
    /\ ppc = "idle"

PngInit ==
    /\ pimage \in PngImages
    /\ pfile = NoFile
    /\ ptamper = "none"
    /\ pout = NoPngImage
    /\ perror = "none"
    /\ ppc = "start"

\* save_png: the buffer is encoded and written.
EncodePng ==
    /\ ppc = "start"
    /\ pfile' = ToPngBytes(pimage)
    /\ ppc' = "encoded"
    /\ UNCHANGED <<pimage, ptamper, pout, perror>>
    /\ UNCHANGED notPngVars

\* Files _load_png may be handed that are not 8-bit RGB, non-interlaced,
\* filter-0 PNGs: the written file with one thing changed.
Tamperings ==
    {"signature", "no_ihdr", "bit_depth", "colour_type", "interlace", "row_filter"}

RECURSIVE WithoutTag(_, _)
WithoutTag(chunks, tag) ==
    IF chunks = <<>> THEN <<>>
    ELSE (IF Head(chunks).tag = tag THEN <<>> ELSE <<Head(chunks)>>)
         \o WithoutTag(Tail(chunks), tag)

Tampered(file, kind) ==
    IF kind = "signature" THEN [file EXCEPT !.sig = "GIF89a"]
    ELSE IF kind = "no_ihdr" THEN [file EXCEPT !.chunks = WithoutTag(@, "IHDR")]
    ELSE IF kind = "bit_depth" THEN [file EXCEPT !.chunks[1].ihdr[3] = 16]
    ELSE IF kind = "colour_type" THEN [file EXCEPT !.chunks[1].ihdr[4] = 6]
    ELSE IF kind = "interlace" THEN [file EXCEPT !.chunks[1].ihdr[7] = 1]
    ELSE [file EXCEPT !.chunks[2].zdata[2] = 1]

TamperFile ==
    /\ ppc = "encoded"
    /\ \E kind \in Tamperings :
          /\ pfile' = Tampered(pfile, kind)
          /\ ptamper' = kind
    /\ ppc' = "tampered"
    /\ UNCHANGED <<pimage, pout, perror>>
    /\ UNCHANGED notPngVars

\* _load_png, lines 66-83: the chunk loop.  The result is the IHDR fields
\* seen last (<<>> for none), the concatenated IDAT payloads, and whether an
\* IHDR of another bit depth or colour type stopped the loop.
RECURSIVE ScanChunks(_, _, _)
ScanChunks(chunks, ihdr, pixels) ==
    IF chunks = <<>> THEN [ihdr |-> ihdr, pixels |-> pixels, unsupported |-> FALSE]
    ELSE LET c == Head(chunks)
         IN IF c.tag = "IHDR"
            THEN IF c.ihdr[3] # 8 \/ c.ihdr[4] # 2
                 THEN [ihdr |-> c.ihdr, pixels |-> pixels, unsupported |-> TRUE]
                 ELSE ScanChunks(Tail(chunks), c.ihdr, pixels)
            ELSE IF c.tag = "IDAT"
                 THEN ScanChunks(Tail(chunks), ihdr, pixels \o c.zdata)
                 ELSE IF c.tag = "IEND"
                      THEN [ihdr |-> ihdr, pixels |-> pixels, unsupported |-> FALSE]
                      ELSE ScanChunks(Tail(chunks), ihdr, pixels)

\* Lines 86-98: the pixels of the rows, from the inflated stream.
DecodedPixels(width, height, stream) ==
    [i \in 1..(width * height) |->
        LET y == (i - 1) \div width
            x == (i - 1) % width
            base == y * (width * 3 + 1) + 1 + 3 * x
        IN <<stream[base + 1], stream[base + 2], stream[base + 3]>>]

\* The exception _load_png raises on a file, or "none": lines 63-64, 77-78,
\* 84 (zlib.error), 85 (FloatImage.new(None, None): TypeError), 89-90 and
\* the reads of lines 88-94 (IndexError on a short stream).
LoadPngError(file) ==
    LET scan == ScanChunks(file.chunks, <<>>, <<>>)
        width == scan.ihdr[1]
        height == scan.ihdr[2]
        stream == Inflate(scan.pixels)
        stride == width * 3 + 1
    IN IF file.sig # PngSignature THEN "ValueError"
       ELSE IF scan.unsupported THEN "ValueError"
       ELSE IF ~CanInflate(scan.pixels) THEN "zlib.error"
       ELSE IF scan.ihdr = <<>> THEN "TypeError"
       ELSE IF \E y \in 0..(height - 1) :
                  /\ \A y2 \in 0..(y - 1) : Len(stream) >= (y2 + 1) * stride
                                            /\ stream[y2 * stride + 1] = 0
                  /\ Len(stream) >= y * stride + 1
                  /\ stream[y * stride + 1] # 0
            THEN "ValueError"
       ELSE IF Len(stream) < height * stride THEN "IndexError"
       ELSE "none"

\* _load_png on the file.
LoadPng ==
    /\ ppc \in {"encoded", "tampered"}
    /\ perror' = LoadPngError(pfile)
    /\ pout' = IF LoadPngError(pfile) # "none" THEN NoPngImage
               ELSE LET scan == ScanChunks(pfile.chunks, <<>>, <<>>)
                    IN [w |-> scan.ihdr[1], h |-> scan.ihdr[2],
                        px |-> DecodedPixels(scan.ihdr[1], scan.ihdr[2],
                                             Inflate(scan.pixels))]
    /\ ppc' = "decoded"
    /\ UNCHANGED <<pimage, pfile, ptamper>>
    /\ UNCHANGED notPngVars

PngNext ==
    \/ EncodePng
    \/ TamperFile
    \/ LoadPng

----------------------------------------------------------------------------
(* config.py: SceneConfig.from_dict; utils.py: hex_to_rgb; shapes.py:      *)
(* render_ui_layers and _build_label_specs.  A ring radius is an integer   *)
(* count of 1/10000.                                                       *)

\* A character is its Unicode code point, a string the tuple of its
\* characters.  Printable lists the characters 32..126 in order (34, 92 and
\* 96 by name), and Text gives the string of a tuple of them.
Printable ==
    << " ", "!", "quote", "#", "$", "%", "&", "'", "(", ")", "*", "+",
       ",", "-", ".", "/", "0", "1", "2", "3", "4", "5", "6", "7",
       "8", "9", ":", ";", "<", "=", ">", "?", "@", "A", "B", "C",
       "D", "E", "F", "G", "H", "I", "J", "K", "L", "M", "N", "O",
       "P", "Q", "R", "S", "T", "U", "V", "W", "X", "Y", "Z", "[",
       "backslash", "]", "^", "_", "backtick", "a", "b", "c", "d", "e", "f", "g",
       "h", "i", "j", "k", "l", "m", "n", "o", "p", "q", "r", "s",
       "t", "u", "v", "w", "x", "y", "z", "{", "|", "}", "~" >>
Ord(ch) == 31 + (CHOOSE i \in 1..Len(Printable) : Printable[i] = ch)
Text(chars) == [k \in 1..Len(chars) |-> Ord(chars[k])]

\* The white space str.strip() removes (str.isspace), and the white space
\* int() skips at both ends, which is the same but for the four separators
\* 28..31.
StripSpaces ==
    {9, 10, 11, 12, 13, 28, 29, 30, 31, 32, 133, 160, 5760}
    \cup (8192..8202) \cup {8232, 8233, 8239, 8287, 12288}
IntSpaces == StripSpaces \ (28..31)
IsSpace(ch) == ch \in StripSpaces
IsIntSpace(ch) == ch \in IntSpaces
IsSign(ch) == ch \in {Ord("+"), Ord("-")}

\* The digit zero of every script with decimal digits: int() takes the ten
\* digits that start at each of them.
DecimalZeros ==
    { 48, 1632, 1776, 1984, 2406, 2534, 2662, 2790, 2918, 3046, 3174, 3302,
       3430, 3558, 3664, 3792, 3872, 4160, 4240, 6112, 6160, 6470, 6608, 6784,
       6800, 6992, 7088, 7232, 7248, 42528, 43216, 43264, 43472, 43504, 43600,
       44016, 65296, 66720, 68912, 69734, 69872, 69942, 70096, 70384, 70736,
       70864, 71248, 71360, 71472, 71904, 72016, 72784, 73040, 73120, 92768,
       92864, 93008, 120782, 120792, 120802, 120812, 120822, 123200, 123632,
       125264, 130032 }
IsDecimal(ch) == \E z \in DecimalZeros : ch \in z..(z + 9)
DecimalValue(ch) == ch - (CHOOSE z \in DecimalZeros : ch \in z..(z + 9))

\* A digit of base 16 as int(.., 16) takes it, the letters in either case,
\* and its value.
IsHexDigit(ch) ==
    IsDecimal(ch) \/ ch \in Ord("a")..Ord("f") \/ ch \in Ord("A")..Ord("F")
HexValue(ch) ==
    IF IsDecimal(ch) THEN DecimalValue(ch)
    ELSE IF ch \in Ord("a")..Ord("f") THEN ch - Ord("a") + 10
    ELSE ch - Ord("A") + 10

\* hex_to_rgb, line 17: color.strip() drops the white space at both ends.
RECURSIVE StripLeft(_)
StripLeft(color) ==
    IF color # <<>> /\ IsSpace(Head(color)) THEN StripLeft(Tail(color)) ELSE color
RECURSIVE StripRight(_)
StripRight(color) ==
    IF color # <<>> /\ IsSpace(color[Len(color)])
    THEN StripRight(SubSeq(color, 1, Len(color) - 1))
    ELSE color
Strip(color) == StripRight(StripLeft(color))

\* hex_to_rgb, lines 17-19: strip, then a leading '#' is dropped.
StripHash(color) ==
    LET stripped == Strip(color)
    IN IF Len(stripped) >= 1 /\ stripped[1] = Ord("#") THEN Tail(stripped) ELSE stripped

\* int(pair, 16) of two characters, lines 24-26: two digits; a sign and a
\* digit; a digit with white space before or after it.  Anything else is
\* a ValueError.
PairParses(a, b) ==
    \/ IsHexDigit(a) /\ IsHexDigit(b)
    \/ (IsSign(a) \/ IsIntSpace(a)) /\ IsHexDigit(b)
    \/ IsHexDigit(a) /\ IsIntSpace(b)
PairValue(a, b) ==
    IF IsHexDigit(a) /\ IsHexDigit(b) THEN 16 * HexValue(a) + HexValue(b)
    ELSE IF IsHexDigit(a) THEN HexValue(a)
    ELSE IF a = Ord("-") THEN 0 - HexValue(b)
    ELSE HexValue(b)

\* hex_to_rgb, lines 22-23: three characters are doubled.
SixOf(body) ==
    IF Len(body) = 3
    THEN <<body[1], body[1], body[2], body[2], body[3], body[3]>>
    ELSE body

\* hex_to_rgb, lines 20-26: ValueError for a length other than 3 or 6 and
\* (from int(.., 16)) for a pair that is no number of base 16.
HexToRgbRaises(color) ==
    LET body == StripHash(color)
    IN \/ Len(body) \notin {3, 6}
       \/ \E c \in 1..3 : ~PairParses(SixOf(body)[2 * c - 1], SixOf(body)[2 * c])

\* hex_to_rgb, lines 22-27: the channels, in 1/255.
HexToRgb(color) ==
    LET six == SixOf(StripHash(color))
    IN [c \in 1..3 |-> PairValue(six[2 * c - 1], six[2 * c])]

\* The characters '\t', '\n', the separator 28 and the Arabic-Indic
\* digit three.
Tab == <<9>>
Newline == <<10>>
FileSeparator == <<28>>
ArabicThree == <<1635>>

ColourStrings ==
    { Text(<<"#", "f", "f", "f">>), Text(<<"4", "3", "8", "4", "C", "E">>),
      Text(<<"r", "e", "d">>), Text(<<"#", "f", "f", "f", "f">>),
      Text(<<" ", "#", "f", "f", "f", " ">>), Text(<<"+", "f", "+", "f", "+", "f">>),
      Text(<<"#", "-", "1", "-", "1", "-", "1">>), Text(<<"f", " ", "f">>),
      Text(<<"#", "f", "f", "f">>) \o Newline, Tab \o Text(<<"#", "f", "f", "f">>),
      Text(<<"f">>) \o Tab \o Text(<<"f">>) \o Tab \o Text(<<"f", "f">>),
      FileSeparator \o Text(<<"f", "f", "f">>),
      Text(<<"f">>) \o FileSeparator \o Text(<<"f">>),
      ArabicThree \o ArabicThree \o ArabicThree }

RingRadii == {-5000, 0, 3500}

\* The rings: every radius with a colour that parses and one that does
\* not, and every colour string on a ring of radius 0.35.
RingItems ==
    [r : RingRadii, color : {Text(<<"#", "f", "f", "f">>), Text(<<"r", "e", "d">>)}]
    \cup [r : {3500}, color : ColourStrings]

ReadoutRings == {-1, 0, 1, 2, 5}

Descriptors ==
    { [rings |-> rs, readouts |-> <<[text |-> "A", ring |-> ri]>>] :
        rs \in UNION { [1..n -> RingItems] : n \in 1..MaxRings },
        ri \in ReadoutRings }

NoDescriptor == [rings |-> <<>>, readouts |-> <<>>]

ConfigIdle ==
    /\ ddata = NoDescriptor
    /\ dconfig = NoDescriptor
    /\ derror = "none"
    /\ draised = "nowhere"
    /\ ddrawn = <<>>
    /\ dskipped = <<>>
    /\ dpc = "idle"

ConfigInit ==
    /\ ddata \in Descriptors
    /\ dconfig = NoDescriptor
    /\ derror = "none"
    /\ draised = "nowhere"
    /\ ddrawn = <<>>
    /\ dskipped = <<>>
    /\ dpc = "start"

\* from_dict, lines 237-283 and 285-326: every ring item with "r" and
\* "color" becomes a RingConfig with r = float(item["r"]) and color =
\* str(item["color"]); every readout with "text" becomes a ReadoutConfig
\* with ring_index = int(placement["ring"]).  Nothing is compared or raised.
FromDictRings(items) ==
    [i \in 1..Len(items) |-> [r |-> items[i].r, color |-> items[i].color]]

FromDictReadouts(items) ==
    [i \in 1..Len(items) |-> [text |-> items[i].text, ring_index |-> items[i].ring]]

FromDict ==
    /\ dpc = "start"
    /\ dconfig' = [rings |-> FromDictRings(ddata.rings),
                   readouts |-> FromDictReadouts(ddata.readouts)]
    /\ dpc' = "constructed"
    /\ UNCHANGED <<ddata, derror, draised, ddrawn, dskipped>>
    /\ UNCHANGED notConfigVars

\* render_ui_layers, lines 266-272: per ring radius = max(1e-4, ring.r) and
\* hex_to_rgb(ring.color); the first colour that does not parse ends the
\* render with ValueError.
RingsBeforeBadColour(rings) ==
    LET bad == { i \in 1..Len(rings) : HexToRgbRaises(rings[i].color) }
    IN IF bad = {} THEN Len(rings)
       ELSE (CHOOSE i \in bad : \A j \in bad : i <= j) - 1

DrawRings ==
    /\ dpc = "constructed"
    /\ LET n == RingsBeforeBadColour(dconfig.rings)
       IN /\ ddrawn' = [i \in 1..n |-> Max(1, dconfig.rings[i].r)]
          /\ IF n < Len(dconfig.rings)
             THEN /\ derror' = "ValueError"
                  /\ draised' = "core"
                  /\ dpc' = "failed"
             ELSE /\ dpc' = "drawn"
                  /\ UNCHANGED <<derror, draised>>
    /\ UNCHANGED <<ddata, dconfig, dskipped>>
    /\ UNCHANGED notConfigVars

\* _build_label_specs, lines 175-178: a readout whose ring index is not in
\* the ring list is skipped.
InRingList(readout, nrings) == ~(readout.ring_index < 0 \/ readout.ring_index >= nrings)

\* The readouts skipped before the first one that is in the ring list.
RECURSIVE SkippedReadouts(_, _)
SkippedReadouts(readouts, nrings) ==
    IF readouts = <<>> \/ InRingList(Head(readouts), nrings) THEN <<>>
    ELSE <<Head(readouts).ring_index>> \o SkippedReadouts(Tail(readouts), nrings)

\* _build_label_specs, lines 175-200: the first readout that is not skipped
\* is handed to LabelSpec(..., alignment=..., baseline=...), lines 187-199;
\* LabelSpec (labels.py 62-71) has no such fields: TypeError.
BuildLabelSpecs ==
    /\ dpc = "drawn"
    /\ dskipped' = SkippedReadouts(dconfig.readouts, Len(dconfig.rings))
    /\ IF \E i \in 1..Len(dconfig.readouts) :
              InRingList(dconfig.readouts[i], Len(dconfig.rings))
       THEN /\ derror' = "TypeError"
            /\ draised' = "core"
            /\ dpc' = "failed"
       ELSE /\ dpc' = "labelled"
            /\ UNCHANGED <<derror, draised>>
    /\ UNCHANGED <<ddata, dconfig, ddrawn>>
    /\ UNCHANGED notConfigVars

ConfigNext ==
    \/ FromDict
    \/ DrawRings
    \/ BuildLabelSpecs

----------------------------------------------------------------------------
(* The sizes that are multiplied by the supersampling factor:              *)
(* sampling.py generate_star_field and render_star_field, shapes.py        *)
(* _draw_ticks and _build_label_specs.  A star's configured size and its   *)
(* depth factor are counts of 1/100, tick lengths are counts of 1/100 px.  *)

SceneCamera == [z_near |-> 100, z_far |-> 6000, fov_deg |-> 35, pitch_deg |-> 83]
SceneRings == <<[r |-> 10, width |-> 4]>>

SceneTicks ==
    { [length_px |-> <<100, 100>>, every_deg |-> <<10>>],
      [length_px |-> <<150, 800>>, every_deg |-> <<10, 30>>],
      [length_px |-> <<200, 200>>, every_deg |-> <<30>>],
      [length_px |-> <<800, 1400>>, every_deg |-> <<10, 30>>] }

\* (configured size, clamp(scale, 0.7, 1.8)) of the star.
SceneStars == { <<60, 70>>, <<120, 70>>, <<120, 100>>, <<260, 180>> }

SceneTextSizes == {12, 18, 26}

Scenes ==
    { [width |-> wh[1], height |-> wh[2], tick |-> t, star |-> s, text_size |-> z] :
        wh \in { <<4, 4>>, <<8, 6>> }, t \in SceneTicks, s \in SceneStars,
        z \in SceneTextSizes }

SceneResolution(scene, ssaa) ==
    [width |-> scene.width, height |-> scene.height, ssaa |-> ssaa]

\* create_projection, line 80, for the scene at a supersampling factor.
PixelToRadius(scene, ssaa) ==
    RDiv(Distance(SceneCamera),
         PixelToRadiusDivisor(SceneResolution(scene, ssaa), SceneCamera, SceneRings))

\* generate_star_field, line 86: size = uniform(size_px) * ssaa * clamp(..),
\* in 1/10000 px.
StarSize(star, ssaa) == star[1] * ssaa * star[2]

\* render_star_field, line 107: sigma = max(0.5, star.radius / 2.0)
StarSigma(radius) == Max(5000, radius \div 2)

\* _draw_ticks, lines 107-112: outer - inner = length_px * pixel_to_radius
\* for every spacing.
TickExtents(tick, ssaa, pixel_to_radius) ==
    LET pairs == IterTickSpacings(tick)
    IN [k \in 1..Len(pairs) |->
           RMul(Rat(TickLengthPx(pairs[k].length, ssaa), 100), pixel_to_radius)]

\* _build_label_specs, line 150: max(1.0, size_px / 18.0) * ssaa, in 1/18.
LabelScale(size_px, ssaa) == Max(18, size_px) * ssaa

NoScene == [width |-> 0, height |-> 0, tick |-> [length_px |-> <<0, 0>>, every_deg |-> <<>>],
            star |-> <<0, 0>>, text_size |-> 0]

SupersamplingIdle ==
    /\ uscene = NoScene
    /\ ussaa = 0
    /\ uproj = Rat(0, 1)
    /\ usigma = 0
    /\ uextent = <<>>
    /\ uscale = 0
    /\ upc = "idle"

SupersamplingInit ==
    /\ uscene \in Scenes
    /\ ussaa \in 1..MaxSupersampling
    /\ uproj = Rat(0, 1)
    /\ usigma = 0
    /\ uextent = <<>>
    /\ uscale = 0
    /\ upc = "start"

\* render.py, line 37.
CreateSceneProjection ==
    /\ upc = "start"
    /\ uproj' = PixelToRadius(uscene, ussaa)
    /\ upc' = "projected"
    /\ UNCHANGED <<uscene, ussaa, usigma, uextent, uscale>>
    /\ UNCHANGED notSupersamplingVars

\* render.py, lines 39-40.
SplatStar ==
    /\ upc = "projected"
    /\ usigma' = StarSigma(StarSize(uscene.star, ussaa))
    /\ upc' = "stars"
    /\ UNCHANGED <<uscene, ussaa, uproj, uextent, uscale>>
    /\ UNCHANGED notSupersamplingVars

\* render.py, line 41: render_ui_layers draws the ticks ...
DrawSceneTicks ==
    /\ upc = "stars"
    /\ uextent' = TickExtents(uscene.tick, ussaa, uproj)
    /\ upc' = "ticks"
    /\ UNCHANGED <<uscene, ussaa, uproj, usigma, uscale>>
    /\ UNCHANGED notSupersamplingVars

\* ... and then builds the label specs.
BuildLabelScale ==
    /\ upc = "ticks"
    /\ uscale' = LabelScale(uscene.text_size, ussaa)
    /\ upc' = "labels"
    /\ UNCHANGED <<uscene, ussaa, uproj, usigma, uextent>>
    /\ UNCHANGED notSupersamplingVars

SupersamplingNext ==
    \/ CreateSceneProjection
    \/ SplatStar
    \/ DrawSceneTicks
    \/ BuildLabelScale

----------------------------------------------------------------------------
(* post.py: _select_downsample_factor, run one loop iteration at a time.   *)
(* sigma is a count of 1/100 px.                                           *)

FactorSigmas == {50, 600, 601, 1200, 1201, 2500, 10000}
FactorSizes == {1, 8, 15, 16, 31, 32, 64}

\* Line 35: sigma / factor > 6.0 and
\*          min(width // (factor * 2), height // (factor * 2)) >= 8
KeepHalvingWhateverTheSize(sigma, width, height, factor) == sigma > 600 * factor
KeepHalving(sigma, width, height, factor) ==
    /\ sigma > 600 * factor
    /\ Min(width \div (factor * 2), height \div (factor * 2)) >= 8

FactorIdle ==
    /\ fsigma = 0
    /\ fwidth = 0
    /\ fheight = 0
    /\ ffactor = 0
    /\ fsteps = 0
    /\ fpc = "idle"

\* Line 34: factor = 1
FactorInit ==
    /\ fsigma \in FactorSigmas
    /\ fwidth \in FactorSizes
    /\ fheight \in FactorSizes
    /\ ffactor = 1
    /\ fsteps = 0
    /\ fpc = "loop"

\* Line 36: factor *= 2
DoubleFactor ==
    /\ fpc = "loop"
    /\ KeepHalving(fsigma, fwidth, fheight, ffactor)
    /\ ffactor' = ffactor * 2
    /\ fsteps' = fsteps + 1
    /\ UNCHANGED <<fsigma, fwidth, fheight, fpc>>
    /\ UNCHANGED notFactorVars

\* Line 37: return factor
ReturnFactor ==
    /\ fpc = "loop"
    /\ ~KeepHalving(fsigma, fwidth, fheight, ffactor)
    /\ fpc' = "returned"
    /\ UNCHANGED <<fsigma, fwidth, fheight, ffactor, fsteps>>
    /\ UNCHANGED notFactorVars

FactorNext ==
    \/ DoubleFactor
    \/ ReturnFactor

----------------------------------------------------------------------------
(* config.py: the hud part of SceneConfig.from_dict, and shapes.py: the    *)
(* hud part of render_ui_layers.  A position is a count of 1/100.          *)

\* str.lower().  LowerRanges lists the characters with a lower-case form
\* of one character as <<first, last, step, offset>>; the capital I with a
\* dot (304) becomes two characters; a capital sigma (931) becomes the
\* final sigma (962) where it ends a word and the small sigma (963)
\* elsewhere.  CasedRanges lists the cased characters that are not case-
\* ignorable and CaseIgnorableRanges the case-ignorable ones, as
\* <<first, last, step>>.
LowerRanges ==
    << <<65, 90, 1, 32>>, <<192, 214, 1, 32>>, <<216, 222, 1, 32>>, <<256, 302,
       2, 1>>, <<306, 310, 2, 1>>, <<313, 327, 2, 1>>, <<330, 374, 2, 1>>,
       <<376, 376, 1, -121>>, <<377, 381, 2, 1>>, <<385, 385, 1, 210>>, <<386,
       388, 2, 1>>, <<390, 390, 1, 206>>, <<391, 391, 1, 1>>, <<393, 394, 1,
       205>>, <<395, 395, 1, 1>>, <<398, 398, 1, 79>>, <<399, 399, 1, 202>>,
       <<400, 400, 1, 203>>, <<401, 401, 1, 1>>, <<403, 403, 1, 205>>, <<404,
       404, 1, 207>>, <<406, 406, 1, 211>>, <<407, 407, 1, 209>>, <<408, 408,
       1, 1>>, <<412, 412, 1, 211>>, <<413, 413, 1, 213>>, <<415, 415, 1,
       214>>, <<416, 420, 2, 1>>, <<422, 422, 1, 218>>, <<423, 423, 1, 1>>,
       <<425, 425, 1, 218>>, <<428, 428, 1, 1>>, <<430, 430, 1, 218>>, <<431,
       431, 1, 1>>, <<433, 434, 1, 217>>, <<435, 437, 2, 1>>, <<439, 439, 1,
       219>>, <<440, 440, 1, 1>>, <<444, 444, 1, 1>>, <<452, 452, 1, 2>>,
       <<453, 453, 1, 1>>, <<455, 455, 1, 2>>, <<456, 456, 1, 1>>, <<458, 458,
       1, 2>>, <<459, 475, 2, 1>>, <<478, 494, 2, 1>>, <<497, 497, 1, 2>>,
       <<498, 500, 2, 1>>, <<502, 502, 1, -97>>, <<503, 503, 1, -56>>, <<504,
       542, 2, 1>>, <<544, 544, 1, -130>>, <<546, 562, 2, 1>>, <<570, 570, 1,
       10795>>, <<571, 571, 1, 1>>, <<573, 573, 1, -163>>, <<574, 574, 1,
       10792>>, <<577, 577, 1, 1>>, <<579, 579, 1, -195>>, <<580, 580, 1, 69>>,
       <<581, 581, 1, 71>>, <<582, 590, 2, 1>>, <<880, 882, 2, 1>>, <<886, 886,
       1, 1>>, <<895, 895, 1, 116>>, <<902, 902, 1, 38>>, <<904, 906, 1, 37>>,
       <<908, 908, 1, 64>>, <<910, 911, 1, 63>>, <<913, 929, 1, 32>>, <<932,
       939, 1, 32>>, <<975, 975, 1, 8>>, <<984, 1006, 2, 1>>, <<1012, 1012, 1,
       -60>>, <<1015, 1015, 1, 1>>, <<1017, 1017, 1, -7>>, <<1018, 1018, 1,
       1>>, <<1021, 1023, 1, -130>>, <<1024, 1039, 1, 80>>, <<1040, 1071, 1,
       32>>, <<1120, 1152, 2, 1>>, <<1162, 1214, 2, 1>>, <<1216, 1216, 1, 15>>,
       <<1217, 1229, 2, 1>>, <<1232, 1326, 2, 1>>, <<1329, 1366, 1, 48>>,
       <<4256, 4293, 1, 7264>>, <<4295, 4295, 1, 7264>>, <<4301, 4301, 1,
       7264>>, <<5024, 5103, 1, 38864>>, <<5104, 5109, 1, 8>>, <<7312, 7354, 1,
       -3008>>, <<7357, 7359, 1, -3008>>, <<7680, 7828, 2, 1>>, <<7838, 7838,
       1, -7615>>, <<7840, 7934, 2, 1>>, <<7944, 7951, 1, -8>>, <<7960, 7965,
       1, -8>>, <<7976, 7983, 1, -8>>, <<7992, 7999, 1, -8>>, <<8008, 8013, 1,
       -8>>, <<8025, 8031, 2, -8>>, <<8040, 8047, 1, -8>>, <<8072, 8079, 1,
       -8>>, <<8088, 8095, 1, -8>>, <<8104, 8111, 1, -8>>, <<8120, 8121, 1,
       -8>>, <<8122, 8123, 1, -74>>, <<8124, 8124, 1, -9>>, <<8136, 8139, 1,
       -86>>, <<8140, 8140, 1, -9>>, <<8152, 8153, 1, -8>>, <<8154, 8155, 1,
       -100>>, <<8168, 8169, 1, -8>>, <<8170, 8171, 1, -112>>, <<8172, 8172, 1,
       -7>>, <<8184, 8185, 1, -128>>, <<8186, 8187, 1, -126>>, <<8188, 8188, 1,
       -9>>, <<8486, 8486, 1, -7517>>, <<8490, 8490, 1, -8383>>, <<8491, 8491,
       1, -8262>>, <<8498, 8498, 1, 28>>, <<8544, 8559, 1, 16>>, <<8579, 8579,
       1, 1>>, <<9398, 9423, 1, 26>>, <<11264, 11311, 1, 48>>, <<11360, 11360,
       1, 1>>, <<11362, 11362, 1, -10743>>, <<11363, 11363, 1, -3814>>,
       <<11364, 11364, 1, -10727>>, <<11367, 11371, 2, 1>>, <<11373, 11373, 1,
       -10780>>, <<11374, 11374, 1, -10749>>, <<11375, 11375, 1, -10783>>,
       <<11376, 11376, 1, -10782>>, <<11378, 11378, 1, 1>>, <<11381, 11381, 1,
       1>>, <<11390, 11391, 1, -10815>>, <<11392, 11490, 2, 1>>, <<11499,
       11501, 2, 1>>, <<11506, 11506, 1, 1>>, <<42560, 42604, 2, 1>>, <<42624,
       42650, 2, 1>>, <<42786, 42798, 2, 1>>, <<42802, 42862, 2, 1>>, <<42873,
       42875, 2, 1>>, <<42877, 42877, 1, -35332>>, <<42878, 42886, 2, 1>>,
       <<42891, 42891, 1, 1>>, <<42893, 42893, 1, -42280>>, <<42896, 42898, 2,
       1>>, <<42902, 42920, 2, 1>>, <<42922, 42922, 1, -42308>>, <<42923,
       42923, 1, -42319>>, <<42924, 42924, 1, -42315>>, <<42925, 42925, 1,
       -42305>>, <<42926, 42926, 1, -42308>>, <<42928, 42928, 1, -42258>>,
       <<42929, 42929, 1, -42282>>, <<42930, 42930, 1, -42261>>, <<42931,
       42931, 1, 928>>, <<42932, 42946, 2, 1>>, <<42948, 42948, 1, -48>>,
       <<42949, 42949, 1, -42307>>, <<42950, 42950, 1, -35384>>, <<42951,
       42953, 2, 1>>, <<42960, 42960, 1, 1>>, <<42966, 42968, 2, 1>>, <<42997,
       42997, 1, 1>>, <<65313, 65338, 1, 32>>, <<66560, 66599, 1, 40>>,
       <<66736, 66771, 1, 40>>, <<66928, 66938, 1, 39>>, <<66940, 66954, 1,
       39>>, <<66956, 66962, 1, 39>>, <<66964, 66965, 1, 39>>, <<68736, 68786,
       1, 64>>, <<71840, 71871, 1, 32>>, <<93760, 93791, 1, 32>>, <<125184,
       125217, 1, 34>> >>

CasedRanges ==
    << <<65, 90, 1>>, <<97, 122, 1>>, <<170, 170, 1>>, <<181, 181, 1>>, <<186,
       186, 1>>, <<192, 214, 1>>, <<216, 246, 1>>, <<248, 442, 1>>, <<444, 447,
       1>>, <<452, 659, 1>>, <<661, 687, 1>>, <<880, 883, 1>>, <<886, 887, 1>>,
       <<891, 893, 1>>, <<895, 895, 1>>, <<902, 904, 2>>, <<905, 906, 1>>,
       <<908, 910, 2>>, <<911, 929, 1>>, <<931, 1013, 1>>, <<1015, 1153, 1>>,
       <<1162, 1327, 1>>, <<1329, 1366, 1>>, <<1376, 1416, 1>>, <<4256, 4293,
       1>>, <<4295, 4295, 1>>, <<4301, 4301, 1>>, <<4304, 4346, 1>>, <<4349,
       4351, 1>>, <<5024, 5109, 1>>, <<5112, 5117, 1>>, <<7296, 7304, 1>>,
       <<7312, 7354, 1>>, <<7357, 7359, 1>>, <<7424, 7467, 1>>, <<7531, 7543,
       1>>, <<7545, 7578, 1>>, <<7680, 7957, 1>>, <<7960, 7965, 1>>, <<7968,
       8005, 1>>, <<8008, 8013, 1>>, <<8016, 8023, 1>>, <<8025, 8031, 2>>,
       <<8032, 8061, 1>>, <<8064, 8116, 1>>, <<8118, 8124, 1>>, <<8126, 8126,
       1>>, <<8130, 8132, 1>>, <<8134, 8140, 1>>, <<8144, 8147, 1>>, <<8150,
       8155, 1>>, <<8160, 8172, 1>>, <<8178, 8180, 1>>, <<8182, 8188, 1>>,
       <<8450, 8450, 1>>, <<8455, 8455, 1>>, <<8458, 8467, 1>>, <<8469, 8469,
       1>>, <<8473, 8477, 1>>, <<8484, 8490, 2>>, <<8491, 8493, 1>>, <<8495,
       8500, 1>>, <<8505, 8505, 1>>, <<8508, 8511, 1>>, <<8517, 8521, 1>>,
       <<8526, 8526, 1>>, <<8544, 8575, 1>>, <<8579, 8580, 1>>, <<9398, 9449,
       1>>, <<11264, 11387, 1>>, <<11390, 11492, 1>>, <<11499, 11502, 1>>,
       <<11506, 11507, 1>>, <<11520, 11557, 1>>, <<11559, 11559, 1>>, <<11565,
       11565, 1>>, <<42560, 42605, 1>>, <<42624, 42651, 1>>, <<42786, 42863,
       1>>, <<42865, 42887, 1>>, <<42891, 42894, 1>>, <<42896, 42954, 1>>,
       <<42960, 42961, 1>>, <<42963, 42965, 2>>, <<42966, 42969, 1>>, <<42997,
       42998, 1>>, <<43002, 43002, 1>>, <<43824, 43866, 1>>, <<43872, 43880,
       1>>, <<43888, 43967, 1>>, <<64256, 64262, 1>>, <<64275, 64279, 1>>,
       <<65313, 65338, 1>>, <<65345, 65370, 1>>, <<66560, 66639, 1>>, <<66736,
       66771, 1>>, <<66776, 66811, 1>>, <<66928, 66938, 1>>, <<66940, 66954,
       1>>, <<66956, 66962, 1>>, <<66964, 66965, 1>>, <<66967, 66977, 1>>,
       <<66979, 66993, 1>>, <<66995, 67001, 1>>, <<67003, 67004, 1>>, <<68736,
       68786, 1>>, <<68800, 68850, 1>>, <<71840, 71903, 1>>, <<93760, 93823,
       1>>, <<119808, 119892, 1>>, <<119894, 119964, 1>>, <<119966, 119967,
       1>>, <<119970, 119970, 1>>, <<119973, 119974, 1>>, <<119977, 119980,
       1>>, <<119982, 119993, 1>>, <<119995, 119997, 2>>, <<119998, 120003,
       1>>, <<120005, 120069, 1>>, <<120071, 120074, 1>>, <<120077, 120084,
       1>>, <<120086, 120092, 1>>, <<120094, 120121, 1>>, <<120123, 120126,
       1>>, <<120128, 120132, 1>>, <<120134, 120134, 1>>, <<120138, 120144,
       1>>, <<120146, 120485, 1>>, <<120488, 120512, 1>>, <<120514, 120538,
       1>>, <<120540, 120570, 1>>, <<120572, 120596, 1>>, <<120598, 120628,
       1>>, <<120630, 120654, 1>>, <<120656, 120686, 1>>, <<120688, 120712,
       1>>, <<120714, 120744, 1>>, <<120746, 120770, 1>>, <<120772, 120779,
       1>>, <<122624, 122633, 1>>, <<122635, 122654, 1>>, <<125184, 125251,
       1>>, <<127280, 127305, 1>>, <<127312, 127337, 1>>, <<127344, 127369, 1>> >>

CaseIgnorableRanges ==
    << <<39, 39, 1>>, <<46, 46, 1>>, <<58, 58, 1>>, <<94, 96, 2>>, <<168, 168,
       1>>, <<173, 175, 2>>, <<180, 180, 1>>, <<183, 184, 1>>, <<688, 879, 1>>,
       <<884, 885, 1>>, <<890, 890, 1>>, <<900, 901, 1>>, <<903, 903, 1>>,
       <<1155, 1161, 1>>, <<1369, 1369, 1>>, <<1375, 1375, 1>>, <<1425, 1469,
       1>>, <<1471, 1473, 2>>, <<1474, 1476, 2>>, <<1477, 1479, 2>>, <<1524,
       1524, 1>>, <<1536, 1541, 1>>, <<1552, 1562, 1>>, <<1564, 1564, 1>>,
       <<1600, 1600, 1>>, <<1611, 1631, 1>>, <<1648, 1648, 1>>, <<1750, 1757,
       1>>, <<1759, 1768, 1>>, <<1770, 1773, 1>>, <<1807, 1809, 2>>, <<1840,
       1866, 1>>, <<1958, 1968, 1>>, <<2027, 2037, 1>>, <<2042, 2042, 1>>,
       <<2045, 2045, 1>>, <<2070, 2093, 1>>, <<2137, 2139, 1>>, <<2184, 2184,
       1>>, <<2192, 2193, 1>>, <<2200, 2207, 1>>, <<2249, 2306, 1>>, <<2362,
       2364, 2>>, <<2369, 2376, 1>>, <<2381, 2381, 1>>, <<2385, 2391, 1>>,
       <<2402, 2403, 1>>, <<2417, 2417, 1>>, <<2433, 2433, 1>>, <<2492, 2492,
       1>>, <<2497, 2500, 1>>, <<2509, 2509, 1>>, <<2530, 2531, 1>>, <<2558,
       2558, 1>>, <<2561, 2562, 1>>, <<2620, 2620, 1>>, <<2625, 2626, 1>>,
       <<2631, 2632, 1>>, <<2635, 2637, 1>>, <<2641, 2641, 1>>, <<2672, 2673,
       1>>, <<2677, 2677, 1>>, <<2689, 2690, 1>>, <<2748, 2748, 1>>, <<2753,
       2757, 1>>, <<2759, 2760, 1>>, <<2765, 2765, 1>>, <<2786, 2787, 1>>,
       <<2810, 2815, 1>>, <<2817, 2817, 1>>, <<2876, 2876, 1>>, <<2879, 2881,
       2>>, <<2882, 2884, 1>>, <<2893, 2893, 1>>, <<2901, 2902, 1>>, <<2914,
       2915, 1>>, <<2946, 2946, 1>>, <<3008, 3008, 1>>, <<3021, 3021, 1>>,
       <<3072, 3072, 1>>, <<3076, 3076, 1>>, <<3132, 3134, 2>>, <<3135, 3136,
       1>>, <<3142, 3144, 1>>, <<3146, 3149, 1>>, <<3157, 3158, 1>>, <<3170,
       3171, 1>>, <<3201, 3201, 1>>, <<3260, 3260, 1>>, <<3263, 3263, 1>>,
       <<3270, 3270, 1>>, <<3276, 3277, 1>>, <<3298, 3299, 1>>, <<3328, 3329,
       1>>, <<3387, 3388, 1>>, <<3393, 3396, 1>>, <<3405, 3405, 1>>, <<3426,
       3427, 1>>, <<3457, 3457, 1>>, <<3530, 3530, 1>>, <<3538, 3540, 1>>,
       <<3542, 3542, 1>>, <<3633, 3633, 1>>, <<3636, 3642, 1>>, <<3654, 3662,
       1>>, <<3761, 3761, 1>>, <<3764, 3772, 1>>, <<3782, 3784, 2>>, <<3785,
       3789, 1>>, <<3864, 3865, 1>>, <<3893, 3897, 2>>, <<3953, 3966, 1>>,
       <<3968, 3972, 1>>, <<3974, 3975, 1>>, <<3981, 3991, 1>>, <<3993, 4028,
       1>>, <<4038, 4038, 1>>, <<4141, 4144, 1>>, <<4146, 4151, 1>>, <<4153,
       4154, 1>>, <<4157, 4158, 1>>, <<4184, 4185, 1>>, <<4190, 4192, 1>>,
       <<4209, 4212, 1>>, <<4226, 4226, 1>>, <<4229, 4230, 1>>, <<4237, 4237,
       1>>, <<4253, 4253, 1>>, <<4348, 4348, 1>>, <<4957, 4959, 1>>, <<5906,
       5908, 1>>, <<5938, 5939, 1>>, <<5970, 5971, 1>>, <<6002, 6003, 1>>,
       <<6068, 6069, 1>>, <<6071, 6077, 1>>, <<6086, 6086, 1>>, <<6089, 6099,
       1>>, <<6103, 6103, 1>>, <<6109, 6109, 1>>, <<6155, 6159, 1>>, <<6211,
       6211, 1>>, <<6277, 6278, 1>>, <<6313, 6313, 1>>, <<6432, 6434, 1>>,
       <<6439, 6440, 1>>, <<6450, 6450, 1>>, <<6457, 6459, 1>>, <<6679, 6680,
       1>>, <<6683, 6683, 1>>, <<6742, 6744, 2>>, <<6745, 6750, 1>>, <<6752,
       6754, 2>>, <<6757, 6764, 1>>, <<6771, 6780, 1>>, <<6783, 6783, 1>>,
       <<6823, 6823, 1>>, <<6832, 6862, 1>>, <<6912, 6915, 1>>, <<6964, 6966,
       2>>, <<6967, 6970, 1>>, <<6972, 6972, 1>>, <<6978, 6978, 1>>, <<7019,
       7027, 1>>, <<7040, 7041, 1>>, <<7074, 7077, 1>>, <<7080, 7081, 1>>,
       <<7083, 7085, 1>>, <<7142, 7144, 2>>, <<7145, 7145, 1>>, <<7149, 7151,
       2>>, <<7152, 7153, 1>>, <<7212, 7219, 1>>, <<7222, 7223, 1>>, <<7288,
       7293, 1>>, <<7376, 7378, 1>>, <<7380, 7392, 1>>, <<7394, 7400, 1>>,
       <<7405, 7405, 1>>, <<7412, 7412, 1>>, <<7416, 7417, 1>>, <<7468, 7530,
       1>>, <<7544, 7544, 1>>, <<7579, 7679, 1>>, <<8125, 8127, 2>>, <<8128,
       8129, 1>>, <<8141, 8143, 1>>, <<8157, 8159, 1>>, <<8173, 8175, 1>>,
       <<8189, 8190, 1>>, <<8203, 8207, 1>>, <<8216, 8217, 1>>, <<8228, 8228,
       1>>, <<8231, 8231, 1>>, <<8234, 8238, 1>>, <<8288, 8292, 1>>, <<8294,
       8303, 1>>, <<8305, 8305, 1>>, <<8319, 8319, 1>>, <<8336, 8348, 1>>,
       <<8400, 8432, 1>>, <<11388, 11389, 1>>, <<11503, 11505, 1>>, <<11631,
       11631, 1>>, <<11647, 11647, 1>>, <<11744, 11775, 1>>, <<11823, 11823,
       1>>, <<12293, 12293, 1>>, <<12330, 12333, 1>>, <<12337, 12341, 1>>,
       <<12347, 12347, 1>>, <<12441, 12446, 1>>, <<12540, 12542, 1>>, <<40981,
       40981, 1>>, <<42232, 42237, 1>>, <<42508, 42508, 1>>, <<42607, 42610,
       1>>, <<42612, 42621, 1>>, <<42623, 42623, 1>>, <<42652, 42655, 1>>,
       <<42736, 42737, 1>>, <<42752, 42785, 1>>, <<42864, 42864, 1>>, <<42888,
       42890, 1>>, <<42994, 42996, 1>>, <<43000, 43001, 1>>, <<43010, 43010,
       1>>, <<43014, 43014, 1>>, <<43019, 43019, 1>>, <<43045, 43046, 1>>,
       <<43052, 43052, 1>>, <<43204, 43205, 1>>, <<43232, 43249, 1>>, <<43263,
       43263, 1>>, <<43302, 43309, 1>>, <<43335, 43345, 1>>, <<43392, 43394,
       1>>, <<43443, 43443, 1>>, <<43446, 43449, 1>>, <<43452, 43453, 1>>,
       <<43471, 43471, 1>>, <<43493, 43494, 1>>, <<43561, 43566, 1>>, <<43569,
       43570, 1>>, <<43573, 43574, 1>>, <<43587, 43587, 1>>, <<43596, 43596,
       1>>, <<43632, 43632, 1>>, <<43644, 43644, 1>>, <<43696, 43698, 2>>,
       <<43699, 43700, 1>>, <<43703, 43704, 1>>, <<43710, 43711, 1>>, <<43713,
       43713, 1>>, <<43741, 43741, 1>>, <<43756, 43757, 1>>, <<43763, 43764,
       1>>, <<43766, 43766, 1>>, <<43867, 43871, 1>>, <<43881, 43883, 1>>,
       <<44005, 44005, 1>>, <<44008, 44008, 1>>, <<44013, 44013, 1>>, <<64286,
       64286, 1>>, <<64434, 64450, 1>>, <<65024, 65039, 1>>, <<65043, 65043,
       1>>, <<65056, 65071, 1>>, <<65106, 65106, 1>>, <<65109, 65109, 1>>,
       <<65279, 65279, 1>>, <<65287, 65287, 1>>, <<65294, 65294, 1>>, <<65306,
       65306, 1>>, <<65342, 65344, 2>>, <<65392, 65392, 1>>, <<65438, 65439,
       1>>, <<65507, 65507, 1>>, <<65529, 65531, 1>>, <<66045, 66045, 1>>,
       <<66272, 66272, 1>>, <<66422, 66426, 1>>, <<67456, 67461, 1>>, <<67463,
       67504, 1>>, <<67506, 67514, 1>>, <<68097, 68099, 1>>, <<68101, 68102,
       1>>, <<68108, 68111, 1>>, <<68152, 68154, 1>>, <<68159, 68159, 1>>,
       <<68325, 68326, 1>>, <<68900, 68903, 1>>, <<69291, 69292, 1>>, <<69446,
       69456, 1>>, <<69506, 69509, 1>>, <<69633, 69633, 1>>, <<69688, 69702,
       1>>, <<69744, 69744, 1>>, <<69747, 69748, 1>>, <<69759, 69761, 1>>,
       <<69811, 69814, 1>>, <<69817, 69818, 1>>, <<69821, 69821, 1>>, <<69826,
       69826, 1>>, <<69837, 69837, 1>>, <<69888, 69890, 1>>, <<69927, 69931,
       1>>, <<69933, 69940, 1>>, <<70003, 70003, 1>>, <<70016, 70017, 1>>,
       <<70070, 70078, 1>>, <<70089, 70092, 1>>, <<70095, 70095, 1>>, <<70191,
       70193, 1>>, <<70196, 70198, 2>>, <<70199, 70199, 1>>, <<70206, 70206,
       1>>, <<70367, 70367, 1>>, <<70371, 70378, 1>>, <<70400, 70401, 1>>,
       <<70459, 70460, 1>>, <<70464, 70464, 1>>, <<70502, 70508, 1>>, <<70512,
       70516, 1>>, <<70712, 70719, 1>>, <<70722, 70724, 1>>, <<70726, 70726,
       1>>, <<70750, 70750, 1>>, <<70835, 70840, 1>>, <<70842, 70842, 1>>,
       <<70847, 70848, 1>>, <<70850, 70851, 1>>, <<71090, 71093, 1>>, <<71100,
       71101, 1>>, <<71103, 71104, 1>>, <<71132, 71133, 1>>, <<71219, 71226,
       1>>, <<71229, 71231, 2>>, <<71232, 71232, 1>>, <<71339, 71341, 2>>,
       <<71344, 71349, 1>>, <<71351, 71351, 1>>, <<71453, 71455, 1>>, <<71458,
       71461, 1>>, <<71463, 71467, 1>>, <<71727, 71735, 1>>, <<71737, 71738,
       1>>, <<71995, 71996, 1>>, <<71998, 71998, 1>>, <<72003, 72003, 1>>,
       <<72148, 72151, 1>>, <<72154, 72155, 1>>, <<72160, 72160, 1>>, <<72193,
       72202, 1>>, <<72243, 72248, 1>>, <<72251, 72254, 1>>, <<72263, 72263,
       1>>, <<72273, 72278, 1>>, <<72281, 72283, 1>>, <<72330, 72342, 1>>,
       <<72344, 72345, 1>>, <<72752, 72758, 1>>, <<72760, 72765, 1>>, <<72767,
       72767, 1>>, <<72850, 72871, 1>>, <<72874, 72880, 1>>, <<72882, 72883,
       1>>, <<72885, 72886, 1>>, <<73009, 73014, 1>>, <<73018, 73020, 2>>,
       <<73021, 73023, 2>>, <<73024, 73029, 1>>, <<73031, 73031, 1>>, <<73104,
       73105, 1>>, <<73109, 73111, 2>>, <<73459, 73460, 1>>, <<78896, 78904,
       1>>, <<92912, 92916, 1>>, <<92976, 92982, 1>>, <<92992, 92995, 1>>,
       <<94031, 94031, 1>>, <<94095, 94111, 1>>, <<94176, 94177, 1>>, <<94179,
       94180, 1>>, <<110576, 110579, 1>>, <<110581, 110587, 1>>, <<110589,
       110590, 1>>, <<113821, 113822, 1>>, <<113824, 113827, 1>>, <<118528,
       118573, 1>>, <<118576, 118598, 1>>, <<119143, 119145, 1>>, <<119155,
       119170, 1>>, <<119173, 119179, 1>>, <<119210, 119213, 1>>, <<119362,
       119364, 1>>, <<121344, 121398, 1>>, <<121403, 121452, 1>>, <<121461,
       121461, 1>>, <<121476, 121476, 1>>, <<121499, 121503, 1>>, <<121505,
       121519, 1>>, <<122880, 122886, 1>>, <<122888, 122904, 1>>, <<122907,
       122913, 1>>, <<122915, 122916, 1>>, <<122918, 122922, 1>>, <<123184,
       123197, 1>>, <<123566, 123566, 1>>, <<123628, 123631, 1>>, <<125136,
       125142, 1>>, <<125252, 125259, 1>>, <<127995, 127999, 1>>, <<917505,
       917505, 1>>, <<917536, 917631, 1>>, <<917760, 917999, 1>> >>

InRanges(ch, ranges) ==
    \E i \in 1..Len(ranges) :
        ch >= ranges[i][1] /\ ch <= ranges[i][2] /\ (ch - ranges[i][1]) % ranges[i][3] = 0

LowerChar(ch) ==
    IF ch = 304 THEN <<105, 775>>
    ELSE IF InRanges(ch, LowerRanges)
         THEN <<ch + LowerRanges[CHOOSE i \in 1..Len(LowerRanges) :
                                     InRanges(ch, <<LowerRanges[i]>>)][4]>>
         ELSE <<ch>>

\* A capital sigma at k is final when the nearest character before it that
\* is not case-ignorable is cased and the nearest such character after it,
\* if any, is not.
FinalSigma(word, k) ==
    /\ \E j \in 1..(k - 1) :
          /\ InRanges(word[j], CasedRanges)
          /\ \A m \in (j + 1)..(k - 1) : InRanges(word[m], CaseIgnorableRanges)
    /\ ~\E j \in (k + 1)..Len(word) :
          /\ InRanges(word[j], CasedRanges)
          /\ \A m \in (k + 1)..(j - 1) : InRanges(word[m], CaseIgnorableRanges)

RECURSIVE LowerFrom(_, _)
LowerFrom(word, k) ==
    IF k > Len(word) THEN <<>>
    ELSE (IF word[k] = 931
          THEN (IF FinalSigma(word, k) THEN <<962>> ELSE <<963>>)
          ELSE LowerChar(word[k]))
         \o LowerFrom(word, k + 1)
Lower(word) == LowerFrom(word, 1)

\* Lines 499-508: the word is lower-cased and looked up in the six words
\* from_dict knows; any other word is "center".
HudAlignment(raw) ==
    LET word == Lower(raw)
    IN IF word \in {Text(<<"s", "t", "a", "r", "t">>), Text(<<"l", "e", "f", "t">>)}
       THEN "start"
       ELSE IF word \in {Text(<<"e", "n", "d">>), Text(<<"r", "i", "g", "h", "t">>)}
            THEN "end"
            ELSE "center"

\* Lines 493-498: float(position) or 0.5 when it does not convert, clamped
\* to [0, 1].
HudPosition(raw) ==
    IF raw.kind = "num" THEN Max(0, Min(100, raw.value)) ELSE 50

\* The hud items: texts with white space of several kinds around them and
\* alone, and alignment words in upper case, unknown, with a Kelvin sign
\* (8490, lower-cased to k) and with a capital E acute (201).
HudItems ==
    [text : {<<>>, Text(<<" ">>), Text(<<" ", "A", " ">>), Tab, Text(<<"A">>) \o Newline},
     position : {[kind |-> "absent", value |-> 0], [kind |-> "bad", value |-> 0],
                 [kind |-> "num", value |-> -100], [kind |-> "num", value |-> 200]},
     alignment : {Text(<<"R", "i", "g", "h", "t">>)}]
    \cup
    [text : {Text(<<" ", "A", " ">>)},
     position : {[kind |-> "absent", value |-> 0]},
     alignment : {Text(<<"w", "e", "i", "r", "d">>), <<201>> \o Text(<<"N", "D">>),
                  Text(<<"S", "T", "A", "R", "T">>)}]

\* The hud section: absent, or a mapping that may have "enabled" and may
\* have "readouts".
HudSections ==
    { [present |-> FALSE, enabled |-> "absent", has_readouts |-> FALSE, readouts |-> <<>>] }
    \cup
    { [present |-> TRUE, enabled |-> e, has_readouts |-> FALSE, readouts |-> <<>>] :
        e \in {"absent", "true", "false"} }
    \cup
    { [present |-> TRUE, enabled |-> e, has_readouts |-> TRUE, readouts |-> rs] :
        e \in {"absent", "true", "false"},
        rs \in UNION { [1..n -> HudItems] : n \in 0..MaxHudReadouts } }

\* Lines 486-510: the readouts kept, in order; an item whose stripped text
\* is empty is dropped.
RECURSIVE HudReadouts(_)
HudReadouts(items) ==
    IF items = <<>> THEN <<>>
    ELSE (IF Strip(Head(items).text) = <<>> THEN <<>>
          ELSE << [text |-> Strip(Head(items).text),
                   position |-> HudPosition(Head(items).position),
                   alignment |-> HudAlignment(Head(items).alignment)] >>)
         \o HudReadouts(Tail(items))

\* Lines 512-518: enabled = bool(hud_data.get("enabled", True)).
HudEnabled(section) ==
    IF section.enabled = "absent" THEN TRUE ELSE section.enabled = "true"

\* shapes.py, lines 24-28; 916 is the capital delta.
DefaultHudReadouts ==
    << [text |-> Text(<<"N", "A", "V", " ", "2", "1", "4", ".", "3", "7">>),
        position |-> 18, alignment |-> "start"],
       [text |-> <<916>> \o Text(<<"V", " ", "0", ".", "9", "9", "3", "C">>),
        position |-> 52, alignment |-> "center"],
       [text |-> Text(<<"S", "Y", "N", "C", " ", "0", "2", ":", "4", "7", ":", "1", "5">>),
        position |-> 84, alignment |-> "end"] >>

\* The fields of the HUDConfig dataclass, config.py lines 157-164.
HudConfigFields == {"enabled", "height_px", "font", "emissive", "readouts"}

NoHud == [enabled |-> FALSE, readouts |-> <<>>]
NoHudSection == [present |-> FALSE, enabled |-> "absent", has_readouts |-> FALSE, readouts |-> <<>>]

HudIdle ==
    /\ hdata = NoHudSection
    /\ hhud = NoHud
    /\ hdrawn = <<>>
    /\ herror = "none"
    /\ hpc = "idle"

HudInit ==
    /\ hdata \in HudSections
    /\ hhud = NoHud
    /\ hdrawn = <<>>
    /\ herror = "none"
    /\ hpc = "start"

\* from_dict, lines 485-518.
FromDictHud ==
    /\ hpc = "start"
    /\ hhud' = [enabled |-> HudEnabled(hdata), readouts |-> HudReadouts(hdata.readouts)]
    /\ hpc' = "constructed"
    /\ UNCHANGED <<hdata, hdrawn, herror>>
    /\ UNCHANGED notHudVars

\* render_ui_layers, lines 309-314: config.hud.use_default_readouts is read
\* first; HUDConfig has no such field, so the read raises AttributeError.
ResolveHudReadouts ==
    /\ hpc = "constructed"
    /\ IF "use_default_readouts" \notin HudConfigFields
       THEN /\ herror' = "AttributeError"
            /\ hpc' = "failed"
            /\ UNCHANGED hdrawn
       ELSE /\ hdrawn' = IF ~hhud.enabled THEN <<>>
                         ELSE IF hhud.readouts = <<>> THEN DefaultHudReadouts
                         ELSE hhud.readouts
            /\ hpc' = "rendered"
            /\ UNCHANGED herror
    /\ UNCHANGED <<hdata, hhud>>
    /\ UNCHANGED notHudVars

HudNext ==
    \/ FromDictHud
    \/ ResolveHudReadouts

----------------------------------------------------------------------------
(* labels.py: draw_label_layers, one glyph at a time.  Angles are exact    *)
(* rationals [num, den] of radians; advances are counts of 1/60.           *)

\* effective_radius = max((radius_x + radius_y) * 0.5, 1.0), lines 114 and
\* 189.
EffectiveRadius(spec) == Rat(EffectiveRadius2(spec), 2)

\* layout_labels, lines 113-122: the placement of a spec solved at theta.
PlacementOf(spec, theta) ==
    LET advances == TextAdvances60(spec.nchars, spec.tracking)
    IN [spec |-> spec,
        theta |-> theta,
        arc_angle |-> RDiv(Rat(SumSeq(advances) * spec.scale, 60), EffectiveRadius(spec)),
        advances |-> advances]

GlyphSpecs ==
    [nchars : 1..MaxGlyphs, tracking : {0, -30, -2400}, scale : {1, 2},
     radius_x : {14, 1}, radius_y : {10, 0}]

GlyphThetas == { Rat(0, 1), Rat(1, 2), Rat(-3, 1) }

GlyphPlacements == { PlacementOf(s, t) : s \in GlyphSpecs, t \in GlyphThetas }

\* Lines 192 and 199: (advance * scale) / (2.0 * effective_radius)
GlyphWholeStep(advance, spec) ==
    RDiv(Rat(advance * spec.scale, 60), EffectiveRadius(spec))
GlyphHalfStep(advance, spec) ==
    RDiv(Rat(advance * spec.scale, 60), RMul(Rat(2, 1), EffectiveRadius(spec)))

NoPlacement ==
    [spec |-> [nchars |-> 0, tracking |-> 0, scale |-> 0, radius_x |-> 0, radius_y |-> 0],
     theta |-> Rat(0, 1), arc_angle |-> Rat(0, 1), advances |-> <<>>]

GlyphsIdle ==
    /\ gplacement = NoPlacement
    /\ gcursor = Rat(0, 1)
    /\ gcentres = <<>>
    /\ gpc = "idle"

GlyphsInit ==
    /\ gplacement \in GlyphPlacements
    /\ gcursor = Rat(0, 1)
    /\ gcentres = <<>>
    /\ gpc = "start"

\* Line 190: theta = placement.theta - placement.arc_angle / 2.0
StartLabel ==
    /\ gpc = "start"
    /\ gcursor' = RSub(gplacement.theta, RDiv(gplacement.arc_angle, Rat(2, 1)))
    /\ gpc' = "glyphs"
    /\ UNCHANGED <<gplacement, gcentres>>
    /\ UNCHANGED notGlyphsVars

\* Lines 191-199: half an advance, the glyph, half an advance.
DrawGlyph ==
    /\ gpc = "glyphs"
    /\ Len(gcentres) < Len(gplacement.advances)
    /\ LET advance == gplacement.advances[Len(gcentres) + 1]
           centre == RAdd(gcursor, GlyphHalfStep(advance, gplacement.spec))
       IN /\ gcentres' = Append(gcentres, centre)
          /\ gcursor' = RAdd(centre, GlyphHalfStep(advance, gplacement.spec))
    /\ UNCHANGED <<gplacement, gpc>>
    /\ UNCHANGED notGlyphsVars

\* The zip of line 191 is exhausted.
FinishLabel ==
    /\ gpc = "glyphs"
    /\ Len(gcentres) = Len(gplacement.advances)
    /\ gpc' = "done"
    /\ UNCHANGED <<gplacement, gcursor, gcentres>>
    /\ UNCHANGED notGlyphsVars

GlyphsNext ==
    \/ StartLabel
    \/ DrawGlyph
    \/ FinishLabel

----------------------------------------------------------------------------
(* shapes.py: _iter_tick_spacings called on a tick config.                 *)

TickSpacingValues == {-5, 0, 10, 30, 90}

TickLengthPairs == { <<100, 100>>, <<600, 1200>>, <<800, 1400>> }

TickConfigs ==
    { [every_deg |-> e, length_px |-> l] :
        e \in UNION { [1..n -> TickSpacingValues] : n \in 0..MaxSpacings },
        l \in TickLengthPairs }

NoTickConfig == [every_deg |-> <<>>, length_px |-> <<0, 0>>]

TicksIdle ==
    /\ kconfig = NoTickConfig
    /\ kpairs = <<>>
    /\ kpc = "idle"

TicksInit ==
    /\ kconfig \in TickConfigs
    /\ kpairs = <<>>
    /\ kpc = "start"

\* _draw_ticks, line 107: the pairs are consumed by one loop.
IterateTicks ==
    /\ kpc = "start"
    /\ kpairs' = IterTickSpacings(kconfig)
    /\ kpc' = "done"
    /\ UNCHANGED kconfig
    /\ UNCHANGED notTicksVars

TicksNext == IterateTicks

----------------------------------------------------------------------------
(* sampling.py: generate_star_field, one star at a time.  A star is the    *)
(* list of the generator outputs it was computed from, in the order they   *)
(* were drawn, with its kind and the factor its size was multiplied by.    *)

\* The draws one star takes.  Bulge, lines 80-90: angle, radius, size,
\* colour mix, intensity.  Background, lines 93-99: two for the position
\* (either branch of _sample_background_position), two for the jitter,
\* then size, intensity, hue.
DrawsPerStarAlike(kind) == 5
DrawsPerStar(kind) == IF kind = "bulge" THEN 5 ELSE 7

\* The star computed from generator state s.
StarFrom(kind, s, config) ==
    [kind |-> kind,
     placed |-> IF kind = "bulge" THEN "bulge"
                ELSE IF config.annulus THEN "annulus" ELSE "frame",
     ssaa |-> config.ssaa,
     draws |-> Draws(s, DrawsPerStar(kind))]

StarFieldConfigs ==
    [bulge : 0..MaxStars, background : 0..MaxStars, annulus : BOOLEAN, ssaa : {1, 2}]

StarSeeds == {0, 1, 2, 100}

NoStarConfig == [bulge |-> 0, background |-> 0, annulus |-> FALSE, ssaa |-> 0]

StarsIdle ==
    /\ nconfig = NoStarConfig
    /\ nrng0 = 0
    /\ nrng = 0
    /\ nstars = <<>>
    /\ npc = "idle"

StarsInit ==
    /\ nconfig \in StarFieldConfigs
    /\ nrng0 \in StarSeeds
    /\ nrng = nrng0
    /\ nstars = <<>>
    /\ npc = "bulge"

\* Lines 79-90: one iteration of the bulge loop.
AddBulgeStar ==
    /\ npc = "bulge"
    /\ Len(nstars) < nconfig.bulge
    /\ nstars' = Append(nstars, StarFrom("bulge", nrng, nconfig))
    /\ nrng' = RngAfter(nrng, DrawsPerStar("bulge"))
    /\ UNCHANGED <<nconfig, nrng0, npc>>
    /\ UNCHANGED notStarsVars

\* Line 92: the bulge loop is over.
EndBulge ==
    /\ npc = "bulge"
    /\ Len(nstars) >= nconfig.bulge
    /\ npc' = "background"
    /\ UNCHANGED <<nconfig, nrng0, nrng, nstars>>
    /\ UNCHANGED notStarsVars

\* Lines 92-100: one iteration of the background loop.
AddBackgroundStar ==
    /\ npc = "background"
    /\ Len(nstars) < nconfig.bulge + nconfig.background
    /\ nstars' = Append(nstars, StarFrom("background", nrng, nconfig))
    /\ nrng' = RngAfter(nrng, DrawsPerStar("background"))
    /\ UNCHANGED <<nconfig, nrng0, npc>>
    /\ UNCHANGED notStarsVars

\* Line 102: return stars
ReturnStars ==
    /\ npc = "background"
    /\ Len(nstars) >= nconfig.bulge + nconfig.background
    /\ npc' = "done"
    /\ UNCHANGED <<nconfig, nrng0, nrng, nstars>>
    /\ UNCHANGED notStarsVars

StarsNext ==
    \/ AddBulgeStar
    \/ EndBulge
    \/ AddBackgroundStar
    \/ ReturnStars

----------------------------------------------------------------------------
(* render.py lines 43-45 with image.py copy and add_image, on pixel        *)
(* values.  A buffer is its pixels in row-major order, a pixel is          *)
(* <<r, g, b>>; the three layers have the size of the projection.          *)

LayerPixels == {<<0, 0, 0>>, <<1, 0, 2>>, <<3, 3, 3>>}

LayerBuffers(n) == [1..n -> LayerPixels]

\* FloatImage.add_image (image.py 103-108): zip stops at the shorter
\* buffer; each channel of the receiver gets the other's channel added.
AddPixelsOver(pixels, other) ==
    [p \in 1..Len(pixels) |->
        IF p <= Len(other) /\ other[p] # <<0, 0, 0>> THEN other[p] ELSE pixels[p]]
AddPixels(pixels, other) ==
    [p \in 1..Len(pixels) |->
        IF p <= Len(other)
        THEN [c \in 1..3 |-> pixels[p][c] + other[p][c]]
        ELSE pixels[p]]

\* FloatImage.copy (image.py 25-30): new lists with the same values.
CopyPixels(pixels) == [p \in 1..Len(pixels) |-> [c \in 1..3 |-> pixels[p][c]]]

SumIdle ==
    /\ mheap = <<>>
    /\ mbefore = <<>>
    /\ mcombined = 0
    /\ mpc = "idle"

SumInit ==
    /\ \E n \in 1..MaxPixels :
          mheap \in [1..3 -> LayerBuffers(n)]
    /\ mbefore = mheap
    /\ mcombined = 0
    /\ mpc = "copy"

\* Line 43: combined = star_layer.copy()
CopyStarLayer ==
    /\ mpc = "copy"
    /\ mheap' = Append(mheap, CopyPixels(mheap[1]))
    /\ mcombined' = Len(mheap) + 1
    /\ mpc' = "core"
    /\ UNCHANGED mbefore
    /\ UNCHANGED notSumVars

\* Line 44: combined.add_image(ui_core)
AddUiCore ==
    /\ mpc = "core"
    /\ mheap' = [mheap EXCEPT ![mcombined] = AddPixels(@, mheap[2])]
    /\ mpc' = "glow"
    /\ UNCHANGED <<mbefore, mcombined>>
    /\ UNCHANGED notSumVars

\* Line 45: combined.add_image(ui_glow)
AddUiGlow ==
    /\ mpc = "glow"
    /\ mheap' = [mheap EXCEPT ![mcombined] = AddPixels(@, mheap[3])]
    /\ mpc' = "done"
    /\ UNCHANGED <<mbefore, mcombined>>
    /\ UNCHANGED notSumVars

SumNext ==
    \/ CopyStarLayer
    \/ AddUiCore
    \/ AddUiGlow

----------------------------------------------------------------------------
(* post.py: apply_chromatic_aberration with FloatImage.sample, on pixel    *)
(* values.  The inputs (shift, centre) are counted in sub-pixels           *)
(* (1 / SubPixel of a pixel); coordinates and sampled channels are exact   *)
(* fractions of a pixel, and math.hypot is the square root to              *)
(* 1 / HypotScale of a sub-pixel.                                          *)

SubPixel == Pow2(SubPixelBits)

\* The largest r with r * r <= n, by bisection of lo..hi.
RECURSIVE IsqrtIn(_, _, _)
IsqrtIn(n, lo, hi) ==
    IF lo >= hi THEN lo
    ELSE LET mid == (lo + hi + 1) \div 2
         IN IF mid * mid <= n THEN IsqrtIn(n, mid, hi) ELSE IsqrtIn(n, lo, mid - 1)
Isqrt(n) == IsqrtIn(n, 0, Min(n, 46340))

HypotScale == 256

\* math.hypot(a, b) in pixels, for a and b in sub-pixels.
Hypot(a, b) ==
    Rat(Isqrt((a * a + b * b) * HypotScale * HypotScale), HypotScale * SubPixel)

\* int(x): towards zero.
RTrunc(a) == IF a.num >= 0 THEN a.num \div a.den ELSE 0 - ((0 - a.num) \div a.den)
\* math.floor(x)
RFloor(a) == a.num \div a.den

AberrationPixels == {<<1, 2, 3>>, <<5, 0, 7>>}

AberrationImages ==
    UNION { [w : {w}, h : {h}, px : [1..h -> [1..w -> AberrationPixels]]] :
            w \in 1..MaxAberrationDim, h \in 1..MaxAberrationDim }

\* pixels: 0 (below the 1e-6 of line 168), half a pixel, a pixel and a
\* half outwards, one pixel inwards, and far beyond the buffer.
AberrationShifts ==
    {0, SubPixel \div 2, (3 * SubPixel) \div 2, 0 - SubPixel, 6 * SubPixel}

\* center: None, the first pixel, a point between pixels, a point outside.
AberrationCentres ==
    {<<>>, <<0, 0>>, <<SubPixel \div 2, SubPixel>>, <<0 - SubPixel, 3 * SubPixel>>}

\* image.py 186-204, FloatImage.sample at (x, y): outside
\* [0, width - 1) x [0, height - 1) the nearest pixel, else bilinear.
Sample(img, x, y) ==
    IF \/ x.num < 0 \/ RLeq(Rat(img.w - 1, 1), x)
       \/ y.num < 0 \/ RLeq(Rat(img.h - 1, 1), y)
    THEN LET ix == Min(Max(RTrunc(x), 0), img.w - 1)
             iy == Min(Max(RTrunc(y), 0), img.h - 1)
         IN [c \in 1..3 |-> Rat(img.px[iy + 1][ix + 1][c], 1)]
    ELSE LET x0 == RFloor(x)
             y0 == RFloor(y)
             wx == RSub(x, Rat(x0, 1))
             wy == RSub(y, Rat(y0, 1))
             p00 == img.px[y0 + 1][x0 + 1]
             p01 == img.px[y0 + 1][x0 + 2]
             p10 == img.px[y0 + 2][x0 + 1]
             p11 == img.px[y0 + 2][x0 + 2]
             mix(u, v, w) == RAdd(RMul(u, RSub(Rat(1, 1), w)), RMul(v, w))
             top(c) == mix(Rat(p00[c], 1), Rat(p01[c], 1), wx)
             bottom(c) == mix(Rat(p10[c], 1), Rat(p11[c], 1), wx)
         IN [c \in 1..3 |-> mix(top(c), bottom(c), wy)]

\* Lines 173-177: the centre in sub-pixels, given or the middle of the
\* buffer.
AberrationCentre(img, center) ==
    IF center # <<>> THEN center
    ELSE <<((img.w - 1) * SubPixel) \div 2, ((img.h - 1) * SubPixel) \div 2>>

\* Lines 178-179: max_radius, at least one pixel.
AberrationMaxRadius(img, c) ==
    RMax(Hypot(Max(c[1], img.w * SubPixel - c[1]), Max(c[2], img.h * SubPixel - c[2])),
         Rat(1, 1))

\* Line 197: green_sample = image.sample(x, y)
GreenSampleShifted(img, x, y, sx, sy) ==
    Sample(img, RAdd(Rat(x, 1), sx), RAdd(Rat(y, 1), sy))
GreenSample(img, x, y, sx, sy) == Sample(img, Rat(x, 1), Rat(y, 1))

\* Lines 185-203: the pixel written at (x, y).
AberratedPixel(img, pixels, center, x, y) ==
    LET c == AberrationCentre(img, center)
        dx == x * SubPixel - c[1]
        dy == y * SubPixel - c[2]
        radius == Hypot(dx, dy)
    IN IF radius.num = 0
       THEN [k \in 1..3 |-> Rat(img.px[y + 1][x + 1][k], 1)]
       ELSE LET shift == RMul(RDiv(radius, AberrationMaxRadius(img, c)),
                              Rat(pixels, SubPixel))
                nx == RDiv(Rat(dx, SubPixel), radius)
                ny == RDiv(Rat(dy, SubPixel), radius)
                sx == RMul(nx, shift)
                sy == RMul(ny, shift)
                red == Sample(img, RAdd(Rat(x, 1), sx), RAdd(Rat(y, 1), sy))
                green == GreenSample(img, x, y, sx, sy)
                blue == Sample(img, RSub(Rat(x, 1), sx), RSub(Rat(y, 1), sy))
            IN <<red[1], green[2], blue[3]>>

\* FloatImage.new(width, height, 0.0)
BlackPixels(w, h) == [y \in 1..h |-> [x \in 1..w |-> <<Rat(0, 1), Rat(0, 1), Rat(0, 1)>>]]

NoAberrationImage == [w |-> 0, h |-> 0, px |-> <<>>]

AberrationIdle ==
    /\ qimage = NoAberrationImage
    /\ qpixels = 0
    /\ qcenter = <<>>
    /\ qresult = NoAberrationImage
    /\ qpos = 0
    /\ qpc = "idle"

AberrationInit ==
    /\ qimage \in AberrationImages
    /\ qpixels \in AberrationShifts
    /\ qcenter \in AberrationCentres
    /\ qresult = NoAberrationImage
    /\ qpos = 0
    /\ qpc = "start"

\* Lines 168-169: a magnitude below 1e-6 returns a copy.
ReturnCopy ==
    /\ qpc = "start"
    /\ qpixels = 0
    /\ qresult' = [w |-> qimage.w, h |-> qimage.h,
                   px |-> [y \in 1..qimage.h |-> [x \in 1..qimage.w |->
                              [k \in 1..3 |-> Rat(qimage.px[y][x][k], 1)]]]]
    /\ qpc' = "done"
    /\ UNCHANGED <<qimage, qpixels, qcenter, qpos>>
    /\ UNCHANGED notAberrationVars

\* Lines 171-172: result = FloatImage.new(width, height, 0.0)
NewResult ==
    /\ qpc = "start"
    /\ qpixels # 0
    /\ qresult' = [w |-> qimage.w, h |-> qimage.h, px |-> BlackPixels(qimage.w, qimage.h)]
    /\ qpc' = "loop"
    /\ UNCHANGED <<qimage, qpixels, qcenter, qpos>>
    /\ UNCHANGED notAberrationVars

\* Lines 183-203: one pixel of the loops over y and x.
ShiftPixel ==
    /\ qpc = "loop"
    /\ qpos < qimage.w * qimage.h
    /\ LET y == qpos \div qimage.w
           x == qpos % qimage.w
       IN qresult' = [qresult EXCEPT !.px[y + 1][x + 1] =
                          AberratedPixel(qimage, qpixels, qcenter, x, y)]
    /\ qpos' = qpos + 1
    /\ UNCHANGED <<qimage, qpixels, qcenter, qpc>>
    /\ UNCHANGED notAberrationVars

\* Line 204: return result
ReturnResult ==
    /\ qpc = "loop"
    /\ qpos >= qimage.w * qimage.h
    /\ qpc' = "done"
    /\ UNCHANGED <<qimage, qpixels, qcenter, qresult, qpos>>
    /\ UNCHANGED notAberrationVars

AberrationNext ==
    \/ ReturnCopy
    \/ NewResult
    \/ ShiftPixel
    \/ ReturnResult

----------------------------------------------------------------------------
(* generate.py: the dash loop of _StarChartRenderer._draw_ring, lines     *)
(* 139-152, in whole degrees.  The loop is followed for MaxSpans          *)
(* iterations: every pattern of DashPatterns that ends the loop does so   *)
(* within fewer.                                                           *)

DashValues == {0, 90, 200, 0 - 90}

DashPatterns == UNION { [1..n -> DashValues] : n \in 0..MaxDash }

\* Lines 140-142: an odd pattern gets its last entry repeated.
EvenPattern(dash) ==
    IF Len(dash) % 2 = 1 THEN Append(dash, dash[Len(dash)]) ELSE dash

DashIdle ==
    /\ wdash = <<>>
    /\ wpattern = <<>>
    /\ wangle = 0
    /\ widx = 0
    /\ warcs = <<>>
    /\ wpc = "idle"

DashInit ==
    /\ wdash \in DashPatterns
    /\ wpattern = <<>>
    /\ wangle = 0
    /\ widx = 0
    /\ warcs = <<>>
    /\ wpc = "start"

\* Lines 139-144: if ring.dash: pattern, angle = 0.0, idx = 0
StartDashes ==
    /\ wpc = "start"
    /\ wdash # <<>>
    /\ wpattern' = EvenPattern(wdash)
    /\ wangle' = 0
    /\ widx' = 0
    /\ wpc' = "loop"
    /\ UNCHANGED <<wdash, warcs>>
    /\ UNCHANGED notDashVars

\* Lines 151-152: no dash, one arc from 0 to 360.
DrawFullRing ==
    /\ wpc = "start"
    /\ wdash = <<>>
    /\ warcs' = <<<<0, 360>>>>
    /\ wpc' = "done"
    /\ UNCHANGED <<wdash, wpattern, wangle, widx>>
    /\ UNCHANGED notDashVars

\* Lines 145-150: one iteration of while angle < 360.0.  idx is kept
\* modulo len(pattern), which is all the loop reads of it.
DrawDash ==
    /\ wpc = "loop"
    /\ wangle < 360
    /\ Len(warcs) < MaxSpans
    /\ LET on == wpattern[(widx % Len(wpattern)) + 1]
           off == wpattern[((widx + 1) % Len(wpattern)) + 1]
       IN /\ warcs' = Append(warcs, <<wangle, Min(360, wangle + on)>>)
          /\ wangle' = wangle + on + off
          /\ widx' = (widx + 2) % Len(wpattern)
    /\ UNCHANGED <<wdash, wpattern, wpc>>
    /\ UNCHANGED notDashVars

\* Line 145: the loop ends when angle >= 360.0.
EndDashes ==
    /\ wpc = "loop"
    /\ wangle >= 360
    /\ wpc' = "done"
    /\ UNCHANGED <<wdash, wpattern, wangle, widx, warcs>>
    /\ UNCHANGED notDashVars

DashNext ==
    \/ StartDashes
    \/ DrawFullRing
    \/ DrawDash
    \/ EndDashes

----------------------------------------------------------------------------
(* The specifications: one component runs, the others stay idle. *)

Init == RenderIdle /\ LabelsIdle /\ CacheIdle /\ CameraIdle /\ AlignIdle /\ PngIdle /\ ConfigIdle /\ SupersamplingIdle /\ FactorIdle /\ HudIdle /\ GlyphsIdle /\ TicksIdle /\ StarsIdle /\ SumIdle /\ AberrationIdle /\ DashIdle

Spec == Init /\ [][RenderNext]_vars

InitLabels == LabelsInit /\ RenderIdle /\ CacheIdle /\ CameraIdle /\ AlignIdle /\ PngIdle /\ ConfigIdle /\ SupersamplingIdle /\ FactorIdle /\ HudIdle /\ GlyphsIdle /\ TicksIdle /\ StarsIdle /\ SumIdle /\ AberrationIdle /\ DashIdle

SpecLabels == InitLabels /\ [][LabelsNext]_vars

InitCache == CacheIdle /\ LabelsIdle /\ RenderIdle /\ CameraIdle /\ AlignIdle /\ PngIdle /\ ConfigIdle /\ SupersamplingIdle /\ FactorIdle /\ HudIdle /\ GlyphsIdle /\ TicksIdle /\ StarsIdle /\ SumIdle /\ AberrationIdle /\ DashIdle

SpecCache == InitCache /\ [][CacheNext]_vars

InitCamera == CameraInit /\ LabelsIdle /\ RenderIdle /\ CacheIdle /\ AlignIdle /\ PngIdle /\ ConfigIdle /\ SupersamplingIdle /\ FactorIdle /\ HudIdle /\ GlyphsIdle /\ TicksIdle /\ StarsIdle /\ SumIdle /\ AberrationIdle /\ DashIdle

SpecCamera == InitCamera /\ [][CameraNext]_vars

----------------------------------------------------------------------------
(* Claims about layout_labels, checked under SpecLabels. *)

\* The wrapped angular gap of two angles, and the separation a pair of
\* labels needs with the default padding of 0.06 rad.
AngularGap(x, y) == LET d == (y - x) % TwoPi IN Min(d, TwoPi - d)

RequiredSeparation(k, m) ==
    (ArcAngle(specs[k]) + ArcAngle(specs[m])) \div 2 + DefaultPadding

SameRingPairs ==
    { pair \in (1..Len(specs)) \X (1..Len(specs)) :
        pair[1] < pair[2] /\ specs[pair[1]].ring_index = specs[pair[2]].ring_index }

\* The pairs of distinct placements in the returned list: a spec object
\* that stands twice in the list gets the same placement twice.
ReturnedPairs ==
    { pair \in SameRingPairs : specs[pair[1]].object # specs[pair[2]].object }

PairSeparated(pair) ==
    AngularGap(placements[pair[1]].theta, placements[pair[2]].theta)
        >= RequiredSeparation(pair[1], pair[2])

\* C1: once layout_labels has returned from a call with the default
\* padding and the default 140 iterations, every pair of returned
\* placements on the same ring is at least (arc_a + arc_b) / 2 + padding
\* apart, whatever the list of specs.
C1_SeparatedAfterLayout ==
    lpc = "done" /\ iterations = DefaultIterations /\ padding = DefaultPadding
        => \A pair \in ReturnedPairs : PairSeparated(pair)

----------------------------------------------------------------------------
(* Claims about generate_star_chart, checked under Spec. *)

\* The current call has the configuration and the seed of the remembered one.
SameInputsAsRef ==
    /\ ref.set
    /\ ref.cfg = cfg
    /\ ref.seed = EffectiveSeed(cfg, seedArg)

\* C2: a call of generate_star_chart with the configuration and seed of an
\* earlier call ends as that call did and returns the same image and the
\* same layers, whatever calls were made before or in between.
C2_SameInputsSameOutput ==
    SameInputsAsRef =>
        /\ rpc # "raised"
        /\ rpc = "returned" => outcome = ref.outcome

\* C2 witness: the first call was remembered, another call ran after it,
\* and a third call with the remembered inputs, drawing grain from its
\* generator, has returned the remembered output.
C2_Witness ==
    /\ rpc = "returned"
    /\ SameInputsAsRef
    /\ calls >= ref.at + 2
    /\ cfg.post.grain > 0
    /\ outcome = ref.outcome

\* The size every returned buffer must have.
HasRequestedSize(img) ==
    img.w = cfg.resolution.width /\ img.h = cfg.resolution.height

\* C3: for every width >= 1, height >= 1 and ssaa >= 1 the call returns an
\* image of exactly width x height and a layer map with stars, ui_core,
\* ui_glow and final_linear, each width x height.
C3_ReturnsRequestedSize ==
    /\ rpc \in {"returned", "raised"} => rpc = "returned"
    /\ rpc = "returned" =>
          /\ HasRequestedSize(outcome.image)
          /\ {"stars", "ui_core", "ui_glow", "final_linear"} \subseteq DOMAIN outcome.layers
          /\ \A name \in {"stars", "ui_core", "ui_glow", "final_linear"} :
                HasRequestedSize(outcome.layers[name])

\* The stages of a whole call, in the order the claim gives.
ExpectedStages(c) ==
    <<"apply_bloom">>
    \o (IF c.post.anamorphic.enabled THEN <<"apply_anamorphic_streak">> ELSE <<>>)
    \o <<"apply_chromatic_aberration", "apply_vignette", "add_grain", "tone_map_aces">>
    \o (IF c.resolution.ssaa > 1 THEN <<"downsample">> ELSE <<>>)

\* C4: the stages run in the order bloom, streak (only when enabled),
\* chromatic aberration, vignette, grain, tone map, each reading the buffer
\* the previous stage returned with the pixels it returned, and the final
\* image is downsampled only after the tone map.
C4_StageOrder ==
    /\ Len(trace) <= Len(ExpectedStages(cfg))
    /\ \A k \in 1..Len(trace) : trace[k].stage = ExpectedStages(cfg)[k]
    /\ \A k \in 2..Len(trace) :
          /\ trace[k].ins[1] = trace[k - 1].out
          /\ trace[k].before[1] = trace[k - 1].result
    /\ rpc = "returned" => Len(trace) = Len(ExpectedStages(cfg))

\* C4 witness: a call with the streak enabled and ssaa > 1 has returned
\* after all seven steps.
C4_Witness ==
    /\ rpc = "returned"
    /\ cfg.post.anamorphic.enabled
    /\ cfg.resolution.ssaa > 1
    /\ Len(trace) = 7
    /\ trace[7].before[1] = trace[6].result

\* C5: the tick length, the grain magnitude and the chromatic aberration
\* shift handed to the stages are the configured value times ssaa.
C5_PixelValuesScaledBySsaa ==
    /\ \A k \in 1..Len(handed.tick) :
          handed.tick[k] = IterTickSpacings(cfg.tick)[k].length * Ssaa(cfg)
    /\ \A k \in 1..Len(handed.grain) : handed.grain[k] = cfg.post.grain * Ssaa(cfg)
    /\ \A k \in 1..Len(handed.chroma) :
          handed.chroma[k].num = cfg.post.chroma_pixels * Ssaa(cfg) * handed.chroma[k].den

\* The post stages proper (the trace also records the final downsample).
PostStages ==
    {"apply_bloom", "apply_anamorphic_streak", "apply_chromatic_aberration",
     "apply_vignette", "add_grain", "tone_map_aces"}

\* C8: every post stage leaves the pixels of its inputs as they were and
\* returns a buffer that is none of its inputs.
C8_StagesArePure ==
    \A k \in 1..Len(trace) :
        trace[k].stage \in PostStages =>
            /\ trace[k].after = trace[k].before
            /\ \A n \in 1..Len(trace[k].ins) : trace[k].ins[n] # trace[k].out

\* C9: no post stage raises, for any buffer of at least 1 x 1 and any
\* strength, shift, amount and gamma: every divisor is guarded.
C9_NoStageRaises == failure \notin PostStages

----------------------------------------------------------------------------
(* Claims about _GaussianKernelCache, checked under SpecCache. *)

\* What a single-threaded call on an empty cache returns for a sigma.
FreshKernel(s) == ComputeKernel(ClampSigma(s))

\* C6: whatever requests and clears came before, a request returns, and
\* the kernel it returns is the one its sigma alone determines, the kernel
\* an empty cache would give.
C6_KernelDependsOnlyOnSigma ==
    \A k \in 1..Len(returns) :
        /\ returns[k].raised = "none"
        /\ returns[k].kernel = FreshKernel(returns[k].sigma)

\* C7: a call that overlapped with a call of the other render returns the
\* kernel a single-threaded call with its sigma on an empty cache returns.
C7_ConcurrentCallsReturnFreshKernel ==
    \A k \in 1..Len(returns) :
        returns[k].overlapped /\ returns[k].raised = "none" =>
            returns[k].kernel = FreshKernel(returns[k].sigma)

----------------------------------------------------------------------------
(* Claims about the camera, checked under SpecCamera. *)

\* C10: for every camera and every ring list create_projection and project
\* complete without raising: no division by zero occurs.
C10_ProjectionNeverRaises ==
    /\ cfailure = "none"
    /\ cpc # "raised"

----------------------------------------------------------------------------
(* Further claims about layout_labels, checked under SpecLabels. *)

\* An angle of the half-open interval (-pi, pi].
InHalfOpenTurn(theta) == -PI < theta /\ theta <= PI

\* C11: after every relaxation pass the angles of the ring being relaxed,
\* and on return the angle of every placement (a label alone on its ring
\* included), lie in (-pi, pi].
C11_AnglesWrapped ==
    /\ lpc = "done" => \A k \in 1..Len(placements) : InHalfOpenTurn(placements[k].theta)
    /\ (lpc = "pair" /\ lpass > 1 /\ li = 1 /\ lj = 2) =>
          \A m \in 1..Len(CurrentMembers) :
              InHalfOpenTurn(placements[CurrentMembers[m]].theta)

----------------------------------------------------------------------------
(* The angular footprint, checked under SpecFootprint: layout_labels on    *)
(* one or two labels of ring 0 with and without tracking, at scale 1 and 2, *)
(* on a wide ellipse and on one whose mean radius is below 1.               *)

FootprintCandidates ==
    { c \in
      { [ring_index |-> 0, nchars |-> n, radius_x |-> r[1], radius_y |-> r[2],
       initial_angle |-> 0, tracking |-> t, scale |-> s] :
         n \in {1, 2}, r \in {<<14, 10>>, <<1, 0>>}, t \in {0, -30, -2400}, s \in {1, 2} } :
      c.radius_x = 1 => c.nchars * c.scale <= 2 }

InitFootprint ==
    /\ specs \in { FreshSpecs(cs) : cs \in UNION { [1..n -> FootprintCandidates] : n \in 1..2 } }
    /\ padding = DefaultPadding
    /\ iterations \in 1..2
    /\ placements = <<>>
    /\ lpc = "start"
    /\ lgroup = 1
    /\ lpass = 0
    /\ li = 1
    /\ lj = 2
    /\ moved = FALSE
    /\ ltook = FALSE
    /\ brokeOut = {}
    /\ RenderIdle /\ CacheIdle /\ CameraIdle /\ AlignIdle /\ PngIdle /\ ConfigIdle /\ SupersamplingIdle /\ FactorIdle /\ HudIdle /\ GlyphsIdle /\ TicksIdle /\ StarsIdle /\ SumIdle /\ AberrationIdle /\ DashIdle

SpecFootprint == InitFootprint /\ [][LabelsNext]_vars


\* C12 as stated: arc_angle is the sum over the glyphs of
\* (glyph_advance * scale + tracking), divided by the mean of radius_x and
\* radius_y.  Lengths are in 1/60, the mean radius is (rx + ry) / 2.
C12_FootprintAsStated ==
    \A k \in 1..Len(placements) :
        placements[k].arc_angle =
            AngleOfArc(specs[k].nchars * (360 * specs[k].scale + specs[k].tracking),
                       specs[k].radius_x + specs[k].radius_y)

\* C12 amended: arc_angle is scale times the sum of the glyph advances,
\* divided by max(mean radius, 1.0), where the advance of every glyph but
\* the last is max(0.4, glyph_advance + tracking / 6) and the advance of the
\* last is max(0.4, glyph_advance).
C12_FootprintOfAdvances ==
    \A k \in 1..Len(placements) :
        LET inner == IF 360 + specs[k].tracking \div 6 < 24 THEN 24
                     ELSE 360 + specs[k].tracking \div 6
            total == (specs[k].nchars - 1) * inner + 360
            radius2 == IF specs[k].radius_x + specs[k].radius_y < 2 THEN 2
                       ELSE specs[k].radius_x + specs[k].radius_y
        IN placements[k].arc_angle = AngleOfArc(total * specs[k].scale, radius2)

\* C12 witness: the footprint of a two-glyph label with tracking -0.5 at
\* scale 2 has been computed.
C12_Witness ==
    \E k \in 1..Len(placements) :
        /\ specs[k].nchars = 2
        /\ specs[k].tracking = -30
        /\ specs[k].scale = 2
        /\ placements[k].arc_angle > 0

----------------------------------------------------------------------------
(* Readouts on rings, checked under SpecAlign. *)

InitAlign == AlignInit /\ LabelsIdle /\ RenderIdle /\ CacheIdle /\ CameraIdle /\ PngIdle /\ ConfigIdle /\ SupersamplingIdle /\ FactorIdle /\ HudIdle /\ GlyphsIdle /\ TicksIdle /\ StarsIdle /\ SumIdle /\ AberrationIdle /\ DashIdle

SpecAlign == InitAlign /\ [][AlignNext]_vars

\* The readouts of the config whose ring_index names one of its rings.
ReadoutsOnRings ==
    { k \in 1..Len(aconfig.readouts) :
        /\ aconfig.readouts[k].ring_index >= 0
        /\ aconfig.readouts[k].ring_index < Len(aconfig.rings) }

\* Twice the angle the claim wants a readout centred at: its placement
\* angle, plus half its footprint for start, minus half of it for end.
TwiceStatedAngle(readout) ==
    LET footprint == ArcAngle(ReadoutSpec(readout))
    IN 2 * readout.initial_angle
         + (IF readout.alignment = "start" THEN footprint
            ELSE IF readout.alignment = "end" THEN -footprint
            ELSE 0)

\* C13: once render_ui_layers has ended, every readout on a ring has its
\* label drawn, centred at the placement angle when its alignment is
\* center, at the angle plus half its footprint when it is start, and at
\* the angle minus half its footprint when it is end.
C13_AlignmentShiftsByHalfFootprint ==
    apc \in {"finished", "raised"} =>
        \A k \in ReadoutsOnRings :
            \E d \in 1..Len(adrawn) :
                /\ adrawn[d].ring_index = aconfig.readouts[k].ring_index
                /\ adrawn[d].nchars = aconfig.readouts[k].nchars
                /\ 2 * adrawn[d].centre = TwiceStatedAngle(aconfig.readouts[k])

----------------------------------------------------------------------------
(* Saving and loading a PNG                                                *)

InitPng == PngInit /\ LabelsIdle /\ RenderIdle /\ CacheIdle /\ CameraIdle /\ AlignIdle /\ ConfigIdle /\ SupersamplingIdle /\ FactorIdle /\ HudIdle /\ GlyphsIdle /\ TicksIdle /\ StarsIdle /\ SumIdle /\ AberrationIdle /\ DashIdle
SpecPng == InitPng /\ [][PngNext]_vars

\* The 8-bit value the specification gives for a channel of k/510:
\* 0 below 0, 255 above 1, and otherwise k/2 rounded half up.
StatedByte(k) ==
    IF k <= 0 THEN 0
    ELSE IF k >= 510 THEN 255
    ELSE IF k % 2 = 0 THEN k \div 2 ELSE (k \div 2) + 1

\* The first byte of every scanline of the uncompressed stream of a file.
FilterBytes(file, width, height) ==
    { Inflate(file.chunks[2].zdata)[y * (width * 3 + 1) + 1] : y \in 0..(height - 1) }

\* C14: the written file is the signature, IHDR, one IDAT and IEND, 8-bit
\* truecolour, every scanline with filter byte 0; and reading the written
\* file back gives an image of the same dimensions whose every channel is
\* the clamped, rounded 8-bit value of the saved channel, over 255.
C14_PngRoundTrip ==
    /\ (ppc = "encoded" =>
          /\ pfile.sig = PngSignature
          /\ [i \in 1..Len(pfile.chunks) |-> pfile.chunks[i].tag]
                = <<"IHDR", "IDAT", "IEND">>
          /\ pfile.chunks[1].ihdr = <<pimage.w, pimage.h, 8, 2, 0, 0, 0>>
          /\ FilterBytes(pfile, pimage.w, pimage.h) = {0})
    /\ (ppc = "decoded" /\ ptamper = "none" =>
          /\ perror = "none"
          /\ pout.w = pimage.w
          /\ pout.h = pimage.h
          /\ Len(pout.px) = Len(pimage.px)
          /\ \A i \in 1..Len(pimage.px) : \A c \in 1..3 :
                pout.px[i][c] = StatedByte(pimage.px[i][c]))

\* A 2 x 2 image with channels below 0, above 1 and at odd counts of 1/510
\* was written and read back.
C14_Witness ==
    /\ ppc = "decoded"
    /\ ptamper = "none"
    /\ perror = "none"
    /\ pimage.w = 2
    /\ pimage.h = 2
    /\ \E i \in 1..Len(pimage.px) : pimage.px[i][1] < 0 /\ pout.px[i][1] = 0
    /\ \E i \in 1..Len(pimage.px) : pimage.px[i][1] > 510 /\ pout.px[i][1] = 255
    /\ \E i \in 1..Len(pimage.px) : pimage.px[i][2] = 253 /\ pout.px[i][2] = 127

\* C15: a file that is not an 8-bit RGB, non-interlaced, filter-0 PNG makes
\* _load_png raise ValueError.
C15_InvalidPngRaisesValueError ==
    ppc = "decoded" /\ ptamper # "none" => perror = "ValueError"

----------------------------------------------------------------------------
(* Configuration errors                                                    *)

InitConfig == ConfigInit /\ LabelsIdle /\ RenderIdle /\ CacheIdle /\ CameraIdle /\ AlignIdle /\ PngIdle /\ SupersamplingIdle /\ FactorIdle /\ HudIdle /\ GlyphsIdle /\ TicksIdle /\ StarsIdle /\ SumIdle /\ AberrationIdle /\ DashIdle
SpecConfig == InitConfig /\ [][ConfigNext]_vars

\* The configuration errors the specification names.
HasConfigError(data) ==
    \/ \E i \in 1..Len(data.rings) : data.rings[i].r <= 0
    \/ \E i \in 1..Len(data.rings) :
          LET colour == data.rings[i].color
              body == IF colour # <<>> /\ Head(colour) = Ord("#") THEN Tail(colour) ELSE colour
          IN Len(body) \notin {3, 6} \/ \E k \in 1..Len(body) : ~IsHexDigit(body[k])
    \/ \E i \in 1..Len(data.readouts) :
          data.readouts[i].ring < 0 \/ data.readouts[i].ring >= Len(data.rings)

\* C16: a descriptor with a ring of zero or negative radius, a colour that
\* is not a 3- or 6-digit hex value, or a readout whose ring index is
\* outside the ring list makes from_dict raise, so no such config is
\* returned to be rendered.
C16_ConfigErrorsRaiseAtConstruction ==
    dpc \notin {"idle", "start"} /\ HasConfigError(ddata) => draised = "from_dict"

----------------------------------------------------------------------------
(* Layout no worse than the initial angles                                 *)

\* The same-ring pairs closer than their required separation, at the
\* initial angles of the specs and at the angles of the placements.
OverlapsInitially ==
    { pair \in SameRingPairs :
        AngularGap(specs[pair[1]].initial_angle, specs[pair[2]].initial_angle)
            < RequiredSeparation(pair[1], pair[2]) }

OverlapsPlaced == { pair \in SameRingPairs : ~PairSeparated(pair) }

\* C17: once layout_labels has returned, the number of same-ring pairs
\* whose wrapped gap is below (arc_a + arc_b) / 2 + padding is not larger
\* than it was at the initial angles.
C17_NoWorseThanInitial ==
    lpc = "done" => Cardinality(OverlapsPlaced) <= Cardinality(OverlapsInitially)

----------------------------------------------------------------------------
(* Supersampling invariance                                                *)

InitSupersampling == SupersamplingInit /\ LabelsIdle /\ RenderIdle /\ CacheIdle /\ CameraIdle /\ AlignIdle /\ PngIdle /\ ConfigIdle /\ FactorIdle /\ HudIdle /\ GlyphsIdle /\ TicksIdle /\ StarsIdle /\ SumIdle /\ AberrationIdle /\ DashIdle
SpecSupersampling == InitSupersampling /\ [][SupersamplingNext]_vars

\* C18: measured in output pixels (supersampled pixels divided by ssaa),
\* the sigma a star is splatted with and the scale of the label glyphs are
\* what they are in the ssaa = 1 render of the same scene.
C18_SigmaAndScaleIndependentOfSsaa ==
    upc = "labels" =>
        /\ usigma = ussaa * StarSigma(StarSize(uscene.star, 1))
        /\ uscale = ussaa * LabelScale(uscene.text_size, 1)

\* C19: the radial extent of the ticks of every spacing is what it is in
\* the ssaa = 1 render of the same scene, for every tick length.
C19_TickExtentIndependentOfSsaa ==
    upc \in {"ticks", "labels"} =>
        uextent = TickExtents(uscene.tick, 1, PixelToRadius(uscene, 1))

----------------------------------------------------------------------------
(* The downsample factor of a bloom pass                                   *)

InitFactor == FactorInit /\ LabelsIdle /\ RenderIdle /\ CacheIdle /\ CameraIdle /\ AlignIdle /\ PngIdle /\ ConfigIdle /\ SupersamplingIdle /\ HudIdle /\ GlyphsIdle /\ TicksIdle /\ StarsIdle /\ SumIdle /\ AberrationIdle /\ DashIdle
SpecFactor == InitFactor /\ [][FactorNext]_vars

IsPowerOfTwo(n) == \E k \in 0..10 : n = Pow2(k)

\* A factor at which halving once more would leave fewer than 8 pixels
\* along the shorter side.
TooSmallToHalve(width, height, factor) ==
    width \div (2 * factor) < 8 \/ height \div (2 * factor) < 8

\* C20 as stated: the returned factor is a power of two and sigma / factor
\* is at most 6, whatever the width and the height.
C20_EffectiveSigmaAtMostSix ==
    fpc = "returned" => IsPowerOfTwo(ffactor) /\ fsigma <= 600 * ffactor

\* C20 amended: the loop body runs at most log2(max(1, min(width, height)
\* / 8)) times (factor = 1, or 8 * factor <= min(width, height)), and the
\* returned factor is the least power of two at which sigma / factor <= 6
\* or halving once more would leave fewer than 8 pixels on the shorter
\* side.
C20_LeastFactorWithinSize ==
    /\ ffactor = 1 \/ 8 * ffactor <= Min(fwidth, fheight)
    /\ fpc # "idle" => ffactor = Pow2(fsteps)
    /\ fpc = "returned" =>
          /\ IsPowerOfTwo(ffactor)
          /\ fsigma <= 600 * ffactor \/ TooSmallToHalve(fwidth, fheight, ffactor)
          /\ \A k \in 0..(fsteps - 1) :
                /\ fsigma > 600 * Pow2(k)
                /\ ~TooSmallToHalve(fwidth, fheight, Pow2(k))

\* C20 witness: a sigma of 100 px on a 32 x 16 image was halved once and
\* returned with an effective sigma of 50 px, because 16 // 4 < 8.
C20_Witness ==
    /\ fpc = "returned"
    /\ fsigma = 10000
    /\ fwidth = 32
    /\ fheight = 16
    /\ ffactor = 2

----------------------------------------------------------------------------
(* The HUD section of a scene                                              *)

InitHud == HudInit /\ LabelsIdle /\ RenderIdle /\ CacheIdle /\ CameraIdle /\ AlignIdle /\ PngIdle /\ ConfigIdle /\ SupersamplingIdle /\ FactorIdle /\ GlyphsIdle /\ TicksIdle /\ StarsIdle /\ SumIdle /\ AberrationIdle /\ DashIdle
SpecHud == InitHud /\ [][HudNext]_vars

\* C21: a hud section with an explicitly empty readouts list resolves to
\* enabled = False and readouts = (); a scene with no hud section resolves
\* to enabled = True.
C21_HudResolution ==
    hpc = "constructed" =>
        /\ (hdata.present /\ hdata.has_readouts /\ hdata.readouts = <<>>
               /\ hdata.enabled = "absent"
            => ~hhud.enabled /\ hhud.readouts = <<>>)
        /\ (~hdata.present => hhud.enabled)

----------------------------------------------------------------------------
(* Termination of the relaxation of a ring group                           *)

\* The passes started for a group never exceed `iterations`.
PassesBounded == lpass <= iterations

\* Every ring whose loop was left through the early exit has all its pairs
\* separated, from the exit on.
EarlyExitSeparated ==
    placements # <<>> =>
        \A pair \in (IF lpc = "done" THEN ReturnedPairs ELSE SameRingPairs) :
            specs[pair[1]].ring_index \in brokeOut => PairSeparated(pair)

\* moved tells whether a pair of the running pass was stepped: a pass
\* starts with moved false, and every pair test adds its own outcome.
MovedTellsPassMoved ==
    /\ lpass' # lpass /\ lpc' = "pair" => ~moved'
    /\ lpc = "pair" /\ <<li, lj, lpc>>' # <<li, lj, lpc>> => (moved' <=> (moved \/ ltook'))

\* A pass in which nothing moved is the last one of its group; the loop is
\* left only after such a pass or with all `iterations` passes made; and a
\* further pass starts only while passes remain, as the first pass or after
\* a pass that moved a pair.
StopsAtFirstQuietPass ==
    /\ lpc = "passEnd" /\ ~moved /\ lpc' # lpc => lpc' = "wrap" /\ CurrentRing \in brokeOut'
    /\ lpc \in {"loop", "passEnd"} /\ lpc' = "wrap" =>
          \/ lpass = iterations
          \/ lpc = "passEnd" /\ lpass >= 1 /\ ~moved
    /\ lpass' = lpass + 1 =>
          /\ lpass < iterations
          /\ lpass = 0 \/ moved
    /\ brokeOut' # brokeOut => lpc = "passEnd" /\ ~moved /\ brokeOut' = brokeOut \cup {CurrentRing}

\* C22: the relaxation of a ring group runs at most `iterations` passes
\* (none when iterations is 0), stops earlier exactly at the first pass in
\* which no pair was moved, and after such an early stop every pair of the
\* group has its required separation.
C22_BoundedPassesEarlyExit ==
    /\ [](PassesBounded /\ EarlyExitSeparated)
    /\ [][MovedTellsPassMoved /\ StopsAtFirstQuietPass]_vars

\* C22 witness: a ring whose labels overlapped was relaxed in a pass that
\* moved them, the pass after it moved nothing, and the loop was left there
\* with passes to spare; the layout returned.
C22_Witness ==
    /\ lpc = "done"
    /\ lpass >= 2
    /\ lpass < iterations
    /\ \E pair \in ReturnedPairs :
          /\ specs[pair[1]].ring_index \in brokeOut
          /\ AngularGap(specs[pair[1]].initial_angle, specs[pair[2]].initial_angle)
                < RequiredSeparation(pair[1], pair[2])
          /\ placements[pair[1]].theta # specs[pair[1]].initial_angle
          /\ PairSeparated(pair)

----------------------------------------------------------------------------
(* What the relaxation leaves alone                                        *)

AloneOnRing(k) == \A m \in 1..Len(specs) : m # k => specs[m].ring_index # specs[k].ring_index

\* Every placement refers to its spec and has the arc angle and the
\* advances it was built with, and a label alone on its ring has its
\* initial angle.
AloneKeepsAngleFieldsKept ==
    \A k \in 1..Len(placements) :
        /\ placements[k].spec = specs[k].object
        /\ placements[k].arc_angle = ArcAngle(specs[k])
        /\ placements[k].advances = TextAdvances60(specs[k].nchars, specs[k].tracking)
        /\ AloneOnRing(k) => placements[k].theta = specs[k].initial_angle

\* A step changes no spec, and between the building of the placements and
\* their return no spec reference, arc angle or advances; the only angles
\* it changes are those of labels of the ring group being relaxed.
OnlyCurrentRingMoves ==
    /\ specs' = specs
    /\ lpc' = "done" /\ lpc # "done" =>
          \A k \in 1..Len(specs) : placements'[k] = placements[specs[k].object]
    /\ placements # <<>> /\ lpc' # "done" =>
          \A k \in 1..Len(placements) :
              /\ placements'[k].spec = placements[k].spec
              /\ placements'[k].arc_angle = placements[k].arc_angle
              /\ placements'[k].advances = placements[k].advances
              /\ placements'[k].theta # placements[k].theta =>
                    /\ lpc \in {"pair", "wrap"}
                    /\ specs[k].ring_index = CurrentRing
                    /\ ~AloneOnRing(k)

\* The labels of ring r, in list order, as a list of their own, and the
\* angles the placements of these labels have.
OnRing(r) == { k \in 1..Len(specs) : specs[k].ring_index = r }
NthOnRing(r, m) == CHOOSE k \in OnRing(r) : Cardinality({ q \in OnRing(r) : q < k }) = m - 1
RingAlone(r) == [m \in 1..Cardinality(OnRing(r)) |-> specs[NthOnRing(r, m)]]
SolvedOnRing(r) == [m \in 1..Cardinality(OnRing(r)) |-> placements[NthOnRing(r, m)].theta]

\* The pairs (i, j), i < j, of a list of n placements in the order of the
\* loops of lines 136-138.
RECURSIVE PairsFrom(_, _, _)
PairsFrom(i, j, n) ==
    IF i >= n THEN <<>>
    ELSE IF j > n THEN PairsFrom(i + 1, i + 2, n)
    ELSE <<<<i, j>>>> \o PairsFrom(i, j + 1, n)

\* One pass over placement lists that stand alone: from the set S of
\* [pl, moved] to the set the pairs still to test can leave.
RECURSIVE PassAlone(_, _, _)
PassAlone(S, pairs, pad) ==
    IF pairs = <<>> THEN S
    ELSE PassAlone(
            UNION { { [pl |-> [s.pl EXCEPT ![Head(pairs)[1]] = o.a, ![Head(pairs)[2]] = o.b],
                       moved |-> (s.moved \/ o.overlap)] :
                         o \in PairOutcomes(s.pl[Head(pairs)[1]], s.pl[Head(pairs)[2]], pad) } :
                    s \in S },
            Tail(pairs), pad)

\* The placement lists the loop of passes can be left with, from the lists
\* S at its head with `passes` passes remaining.
RECURSIVE RelaxAlone(_, _, _)
RelaxAlone(S, passes, pad) ==
    IF passes <= 0 \/ S = {} THEN S
    ELSE LET ends == UNION { PassAlone({ [pl |-> pl, moved |-> FALSE] },
                                       PairsFrom(1, 2, Len(pl)), pad) : pl \in S }
         IN { e.pl : e \in { x \in ends : ~x.moved } }
               \cup RelaxAlone({ e.pl : e \in { x \in ends : x.moved } }, passes - 1, pad)

\* The angles layout_labels can give the list ss when ss is all it is
\* handed, every label of it on one ring.
LayoutAlone(ss, passes, pad) ==
    IF Len(ss) <= 1 THEN { [k \in 1..Len(ss) |-> ss[k].initial_angle] }
    ELSE { [k \in 1..Len(ss) |-> w[k].theta] :
             w \in UNION { WrapGroup(pl, [k \in 1..Len(ss) |-> k]) :
                             pl \in RelaxAlone({ [k \in 1..Len(ss) |-> Placement(ss[k])] },
                                               passes, pad) } }

\* Once every group is done, the angles of the labels of each ring are
\* angles the layout of that ring's labels alone can give.  (The lists laid
\* out with the default number of passes stand on one ring.)
SolvedAsRingAlone ==
    lpc = "group" /\ lgroup > Len(RingOrder(specs)) /\ iterations <= MaxIterations =>
        \A r \in { specs[k].ring_index : k \in 1..Len(specs) } :
            SolvedOnRing(r) \in LayoutAlone(RingAlone(r), iterations, padding)

\* C23: the solved angles of the labels of a ring are those the layout of
\* that ring's labels alone gives; an angle is only ever changed while its
\* own ring group is relaxed; a label alone on its ring keeps exactly its
\* initial angle; and the relaxation changes no spec, no arc angle and no
\* advances.
C23_OnlySameRingInteracts ==
    /\ [](AloneKeepsAngleFieldsKept /\ SolvedAsRingAlone)
    /\ [][OnlyCurrentRingMoves]_vars

\* C23 witness: two labels of one ring were pushed apart while a label alone
\* on another ring, at the initial angle of one of them, stayed where it was.
C23_Witness ==
    /\ lpc = "done"
    /\ \E k \in 1..Len(specs) : \E m \in 1..Len(specs) :
          /\ AloneOnRing(k)
          /\ specs[m].ring_index # specs[k].ring_index
          /\ specs[m].initial_angle = specs[k].initial_angle
          /\ placements[m].theta # specs[m].initial_angle
          /\ placements[k].theta = specs[k].initial_angle
          /\ placements[k].advances # <<>>

----------------------------------------------------------------------------
(* One pairwise resolution step                                            *)

\* The pair (i, j) of the current group that RelaxPair is about to test.
PairA == CurrentMembers[li]
PairB == CurrentMembers[lj]

\* The step tested the pair, found it closer than its separation (line
\* 142) and assigned both angles (lines 145-146).  A step taken because
\* rounding put a pair that stands at its separation just below it is one
\* of these: it moves both labels by less than an angle unit.
StepTaken == lpc = "pair" /\ <<li, lj, lpc>>' # <<li, lj, lpc>> /\ ltook'

\* What the pair (a, b) lacks before the step, min_sep - abs(diff).
Lack(a, b) ==
    RequiredSeparation(a, b) - AngularGap(placements[a].theta, placements[b].theta)

\* The angle unit a step is rounded by: none when the half of the lack is
\* a grid angle, one when it stands half a unit between two of them.
RoundedBy(lack) == lack % 2

\* The labels a and b moved by equal and opposite amounts, each by half of
\* what the pair lacked (to the rounding of the two assignments), and no
\* other label moved.
MovedSymmetrically(a, b, lack) ==
    LET moved_a == placements'[a].theta - placements[a].theta
        moved_b == placements'[b].theta - placements[b].theta
    IN /\ Abs(moved_a + moved_b) <= RoundedBy(lack)
       /\ Abs(2 * Abs(moved_a) - lack) <= RoundedBy(lack)
       /\ Abs(2 * Abs(moved_b) - lack) <= RoundedBy(lack)
       /\ \A k \in 1..Len(placements) :
             k \notin {a, b} => placements'[k] = placements[k]

\* C24 as stated: a step that resolves a pair moves its two labels by equal
\* and opposite amounts, and right after it the wrapped gap of the pair is
\* exactly (arc_a + arc_b) / 2 + padding.
StepLeavesRequiredGap ==
    StepTaken =>
        LET a == PairA
            b == PairB
            required == RequiredSeparation(a, b)
            lack == Lack(a, b)
            gap == AngularGap(placements'[a].theta, placements'[b].theta)
        IN /\ MovedSymmetrically(a, b, lack)
           /\ Abs(gap - required) <= RoundedBy(lack)
C24_StepLeavesRequiredGap == [][StepLeavesRequiredGap]_vars

\* C24 amended: the two labels move by equal and opposite amounts of
\* (min_sep - gap) / 2, and right after the step their angles differ by
\* min_sep modulo a full turn: the wrapped gap is that of min_sep itself,
\* which is min_sep when min_sep <= pi.  All of it is exact where the half
\* of the lack is a grid angle, and holds to one angle unit where the two
\* assignments are rounded.
StepLeavesGapOfRequired ==
    StepTaken =>
        LET a == PairA
            b == PairB
            required == RequiredSeparation(a, b)
            lack == Lack(a, b)
            gap == AngularGap(placements'[a].theta, placements'[b].theta)
        IN /\ MovedSymmetrically(a, b, lack)
           /\ Abs(gap - AngularGap(0, required)) <= RoundedBy(lack)
           /\ required <= PI => Abs(gap - required) <= RoundedBy(lack)
C24_StepLeavesGapOfRequired == [][StepLeavesGapOfRequired]_vars

\* C24 witness: two labels of one ring that started at the identical angle
\* were stepped and stand at equal distances on either side of it, exactly
\* their required separation apart.
C24_Witness ==
    /\ moved
    /\ ltook
    /\ lpc \in {"pair", "passEnd"}
    /\ \E pair \in SameRingPairs :
          /\ specs[pair[1]].initial_angle = specs[pair[2]].initial_angle
          /\ placements[pair[1]].theta < specs[pair[1]].initial_angle
          /\ placements[pair[1]].theta + placements[pair[2]].theta
                = 2 * specs[pair[1]].initial_angle
          /\ AngularGap(placements[pair[1]].theta, placements[pair[2]].theta)
                = RequiredSeparation(pair[1], pair[2])

----------------------------------------------------------------------------
(* Glyphs along the footprint                                              *)

InitGlyphs == GlyphsInit /\ LabelsIdle /\ RenderIdle /\ CacheIdle /\ CameraIdle /\ AlignIdle /\ PngIdle /\ ConfigIdle /\ SupersamplingIdle /\ FactorIdle /\ HudIdle /\ TicksIdle /\ StarsIdle /\ SumIdle /\ AberrationIdle /\ DashIdle
SpecGlyphs == InitGlyphs /\ [][GlyphsNext]_vars

FootprintStart == RSub(gplacement.theta, RDiv(gplacement.arc_angle, Rat(2, 1)))
FootprintEnd == RAdd(gplacement.theta, RDiv(gplacement.arc_angle, Rat(2, 1)))

\* theta - arc_angle / 2 + (advances before k + half of advance k) * scale
\* / effective_radius, with the advances doubled to stay in integers.
StatedCentre(k) ==
    LET before == SumSeq(SubSeq(gplacement.advances, 1, k - 1))
        twice == 2 * before + gplacement.advances[k]
    IN RAdd(FootprintStart,
            RDiv(Rat(twice * gplacement.spec.scale, 120),
                 Rat(Max(gplacement.spec.radius_x + gplacement.spec.radius_y, 2), 2)))

\* C25: every glyph drawn is centred at the stated angle, which lies within
\* the footprint [theta - arc_angle / 2, theta + arc_angle / 2], and once
\* the last glyph is drawn the cursor is at theta + arc_angle / 2.
C25_GlyphsSpanFootprint ==
    /\ \A k \in 1..Len(gcentres) :
          /\ gcentres[k] = StatedCentre(k)
          /\ RLeq(FootprintStart, gcentres[k])
          /\ RLeq(gcentres[k], FootprintEnd)
    /\ gpc = "done" => gcursor = FootprintEnd

\* C25 witness: a label of three glyphs with negative tracking, scale 2 and
\* a solved angle of 1/2 was drawn to its end.
C25_Witness ==
    /\ gpc = "done"
    /\ Len(gcentres) = 3
    /\ gplacement.spec.tracking = -30
    /\ gplacement.spec.scale = 2
    /\ gplacement.theta = Rat(1, 2)
    /\ gcursor = FootprintEnd

----------------------------------------------------------------------------
(* The hierarchy of tick lengths                                           *)

InitTicks == TicksInit /\ LabelsIdle /\ RenderIdle /\ CacheIdle /\ CameraIdle /\ AlignIdle /\ PngIdle /\ ConfigIdle /\ SupersamplingIdle /\ FactorIdle /\ HudIdle /\ GlyphsIdle /\ StarsIdle /\ SumIdle /\ AberrationIdle /\ DashIdle
SpecTicks == InitTicks /\ [][TicksNext]_vars

\* How often a spacing occurs among the configured and the yielded ones.
TimesConfigured(v) == Cardinality({ i \in 1..Len(kconfig.every_deg) : kconfig.every_deg[i] = v })
TimesYielded(v) == Cardinality({ k \in 1..Len(kpairs) : kpairs[k].spacing = v })

\* C26: the pairs yielded are exactly the positive spacings, coarsest
\* first, with lengths that never increase towards finer spacings; the
\* coarsest has length high and, with two or more spacings, the finest has
\* length low.
C26_TickHierarchy ==
    kpc = "done" =>
        /\ \A v \in TickSpacingValues :
              TimesYielded(v) = IF v > 0 THEN TimesConfigured(v) ELSE 0
        /\ \A k \in 1..(Len(kpairs) - 1) :
              /\ kpairs[k].spacing >= kpairs[k + 1].spacing
              /\ kpairs[k].length >= kpairs[k + 1].length
        /\ Len(kpairs) >= 1 => kpairs[1].length = kconfig.length_px[2]
        /\ Len(kpairs) >= 2 => kpairs[Len(kpairs)].length = kconfig.length_px[1]

\* C26 witness: a config of three spacings given finest first, one of them
\* not positive, with different low and high, yielded two pairs.
C26_Witness ==
    /\ kpc = "done"
    /\ kconfig.every_deg = <<10, 0, 90>>
    /\ kconfig.length_px = <<600, 1200>>
    /\ kpairs = << [spacing |-> 90, length |-> 1200], [spacing |-> 10, length |-> 600] >>

----------------------------------------------------------------------------
(* The star list                                                           *)

InitStars == StarsInit /\ LabelsIdle /\ RenderIdle /\ CacheIdle /\ CameraIdle /\ AlignIdle /\ PngIdle /\ ConfigIdle /\ SupersamplingIdle /\ FactorIdle /\ HudIdle /\ GlyphsIdle /\ TicksIdle /\ SumIdle /\ AberrationIdle /\ DashIdle
SpecStars == InitStars /\ [][StarsNext]_vars

\* The generator outputs star k is computed from, counted from the start
\* of the call: five per bulge star, then seven per background star.
StatedDraws(k) ==
    IF k <= nconfig.bulge
    THEN [i \in 1..5 |-> RngAfter(nrng0, 5 * (k - 1) + i)]
    ELSE [i \in 1..7 |-> RngAfter(nrng0, 5 * nconfig.bulge + 7 * (k - nconfig.bulge - 1) + i)]

\* C27: the list returned has bulge.count + background.count stars, the
\* bulge stars first, each computed from the draws at fixed positions of
\* the generator's sequence, so that the list and the generator's final
\* state are determined by the config and the starting state.
C27_StarListDetermined ==
    npc = "done" =>
        /\ Len(nstars) = nconfig.bulge + nconfig.background
        /\ \A k \in 1..Len(nstars) :
              /\ nstars[k].kind = IF k <= nconfig.bulge THEN "bulge" ELSE "background"
              /\ nstars[k].draws = StatedDraws(k)
              /\ nstars[k].ssaa = nconfig.ssaa
        /\ nrng = RngAfter(nrng0, 5 * nconfig.bulge + 7 * nconfig.background)

\* C27 witness: two bulge stars and two background stars were returned,
\* the bulge stars first.
C27_Witness ==
    /\ npc = "done"
    /\ Len(nstars) = 4
    /\ nstars[2].kind = "bulge"
    /\ nstars[3].kind = "background"
    /\ nstars[3].draws[1] = RngAfter(nrng0, 11)

----------------------------------------------------------------------------
(* The composite                                                           *)

InitSum == SumInit /\ LabelsIdle /\ RenderIdle /\ CacheIdle /\ CameraIdle /\ AlignIdle /\ PngIdle /\ ConfigIdle /\ SupersamplingIdle /\ FactorIdle /\ HudIdle /\ GlyphsIdle /\ TicksIdle /\ StarsIdle /\ AberrationIdle /\ DashIdle
SpecSum == InitSum /\ [][SumNext]_vars

\* The buffer built from layer a by adding layer b, then layer c.
CompositeInOrder(a, b, c) ==
    AddPixels(AddPixels(CopyPixels(mbefore[a]), mbefore[b]), mbefore[c])

LayerOrders ==
    { o \in [1..3 -> 1..3] : \A i, j \in 1..3 : i # j => o[i] # o[j] }

\* C28: the composite is the per-pixel, per-channel sum of the three
\* layers, the same buffer in whichever order the layers are added, and
\* the three layers are as they were before it was built.
C28_CompositeIsSum ==
    mpc = "done" =>
        /\ Len(mheap[mcombined]) = Len(mbefore[1])
        /\ \A p \in 1..Len(mbefore[1]) : \A c \in 1..3 :
              mheap[mcombined][p][c] = mbefore[1][p][c] + mbefore[2][p][c] + mbefore[3][p][c]
        /\ \A o \in LayerOrders : CompositeInOrder(o[1], o[2], o[3]) = mheap[mcombined]
        /\ \A k \in 1..3 : mheap[k] = mbefore[k]
        /\ mcombined \notin 1..3

\* C28 witness: a composite of three layers that all light the same
\* pixel with different values.
C28_Witness ==
    /\ mpc = "done"
    /\ mbefore[1][1] = <<1, 0, 2>>
    /\ mbefore[2][1] = <<3, 3, 3>>
    /\ mbefore[3][1] = <<1, 0, 2>>
    /\ mheap[mcombined][1] = <<5, 3, 7>>

----------------------------------------------------------------------------
(* Chromatic aberration                                                    *)

InitAberration == AberrationInit /\ LabelsIdle /\ RenderIdle /\ CacheIdle /\ CameraIdle /\ AlignIdle /\ PngIdle /\ ConfigIdle /\ SupersamplingIdle /\ FactorIdle /\ HudIdle /\ GlyphsIdle /\ TicksIdle /\ StarsIdle /\ SumIdle /\ DashIdle
SpecAberration == InitAberration /\ [][AberrationNext]_vars

\* Channel k of the returned buffer equals the input's at every pixel.
ChannelKept(k) ==
    \A y \in 1..qimage.h : \A x \in 1..qimage.w :
        qresult.px[y][x][k] = Rat(qimage.px[y][x][k], 1)

\* C29: the returned buffer has the input's size and the input's green
\* channel at every pixel, border pixels included; with a magnitude
\* below the threshold it has the input's red and blue channels as well.
C29_GreenKept ==
    qpc = "done" =>
        /\ qresult.w = qimage.w
        /\ qresult.h = qimage.h
        /\ DOMAIN qresult.px = 1..qimage.h
        /\ \A y \in 1..qimage.h : DOMAIN qresult.px[y] = 1..qimage.w
        /\ ChannelKept(2)
        /\ qpixels = 0 => ChannelKept(1) /\ ChannelKept(3)

\* C29 witness: a 2 x 2 buffer came back with its red channel changed
\* by the shift at an interior position and at a border position.
C29_Witness ==
    /\ qpc = "done"
    /\ qimage.w = 2
    /\ qimage.h = 2
    /\ qpixels # 0
    /\ qresult.px[1][1][1] # Rat(qimage.px[1][1][1], 1)
    /\ qresult.px[2][2][1] # Rat(qimage.px[2][2][1], 1)
    /\ qimage.px[1][1][2] # qimage.px[2][2][2]

----------------------------------------------------------------------------
(* The dash loop                                                           *)

InitDash == DashInit /\ LabelsIdle /\ RenderIdle /\ CacheIdle /\ CameraIdle /\ AlignIdle /\ PngIdle /\ ConfigIdle /\ SupersamplingIdle /\ FactorIdle /\ HudIdle /\ GlyphsIdle /\ TicksIdle /\ StarsIdle /\ SumIdle /\ AberrationIdle
SpecDash == InitDash /\ [][DashNext]_vars

\* The loop has drawn MaxSpans spans and its condition still holds.
StillLooping ==
    /\ wpc = "loop"
    /\ Len(warcs) = MaxSpans
    /\ wangle < 360

\* Two arcs share more than an end point.
ArcsOverlap(a, b) == a[1] < b[2] /\ b[1] < a[2]

\* C30: for a non-empty dash pattern the loop ends after finitely many
\* spans, and the arcs drawn lie within [0, 360] degrees and are
\* pairwise disjoint.
C30_DashLoopTerminates ==
    wdash # <<>> =>
        /\ ~StillLooping
        /\ \A i \in 1..Len(warcs) :
              0 <= warcs[i][1] /\ warcs[i][1] <= warcs[i][2] /\ warcs[i][2] <= 360
        /\ \A i, j \in 1..Len(warcs) : i < j => ~ArcsOverlap(warcs[i], warcs[j])

====
